---------------------------- MODULE Spec2Model ----------------------------
(***************************************************************************)
(* A model of the replicated TCP key-value server (tcp/pkg/server and      *)
(* tcp/pkg/kvstore).                                                       *)
(*                                                                         *)
(* Byte strings are sequences of one-character strings, so that slicing,   *)
(* prefixes and lengths are those of the Go strings.  A Go slice           *)
(* s[a:b] is SubSeq(s, a+1, b).                                            *)
(***************************************************************************)
EXTENDS Integers, Sequences, FiniteSets, TLC

VARIABLES
    \* the client end of the connection
    sent,        \* the requests the client has written, in order (history)
    stream,      \* bytes written by the client and not yet read by handle
    clientOpen,  \* FALSE once the client has closed its end
    replies,     \* the responses handle wrote to the client, in order
    \* handle and performCommand (handler.go)
    hpc,         \* position of the handler goroutine
    buffer,      \* handle's accumulated buffer
    request,     \* the commandRequest being performed
    response,    \* performCommand's local `response`
    numAcks,     \* performCommand's local `numAcks`
    fanIdx,      \* index of the next peerChannel of the fan-out loop
    readErrors,  \* number of "Read error" lines logged (counted in a cycle)
    connClosed,  \* TRUE once handle's deferred clientConn.Close() has run
    performed,   \* history: one entry per performCommand call that returned
    \* time, while a fan-in is running
    elapsed,     \* ms since the fan-in loop was entered (capped)
    armed,       \* ms since the current select armed its time.After timer
    \* the local-dispatch goroutine of initialiseLocalStoreHandler
    lpc, lreq, lresp,
    \* the store (kvstore)
    storeState, storeCur, data,
    \* the relay goroutines of initialiseReplicationHandler and their links
    npeers, rpc, rreq, link, wire,
    \* what the client may send
    menu, budget,
    \* TRUE once a goroutine has panicked (the process is gone)
    crashed,
    \* the codec experiments (parser.go on its own)
    cpc, cx, cfmt, cargres, ccmd, cfeed, cbuf, cres,
    \* several connections that share one store: the local-dispatch
    \* goroutine of each, and the store's worker
    connPc,      \* where the goroutine of each connection is
    connReq,     \* the commandRequest it holds
    connResp,    \* the response it made of the store's answer ("" if none)
    serving,     \* the connection whose operation the worker holds, or 0
    served,      \* history: the operations the worker received, in order
    calls,       \* history: per connection, calls of the store begun
    returns,     \* history: per connection, calls of the store returned
    \* the servers at the far end of the peer links: handle with no peers,
    \* on the peer port of another server with a store of its own
    peerApplied, \* per link, how many of the commands on it that store has performed
    peerAnswers  \* per link, the 3-byte responses that handler has written

clientVars == <<sent, stream, clientOpen, replies>>
handlerVars == <<hpc, buffer, request, response, numAcks, fanIdx, readErrors,
                 connClosed, performed>>
timeVars == <<elapsed, armed>>
localVars == <<lpc, lreq, lresp>>
storeVars == <<storeState, storeCur, data>>
relayVars == <<npeers, rpc, rreq, link, wire>>
configVars == <<menu, budget>>
codecVars == <<cpc, cx, cfmt, cargres, ccmd, cfeed, cbuf, cres>>
sharedVars == <<connPc, connReq, connResp, serving, served, calls, returns>>
clusterVars == <<peerApplied, peerAnswers>>
vars == <<clientVars, handlerVars, timeVars, localVars, storeVars, relayVars,
          configVars, crashed, codecVars, sharedVars, clusterVars>>

-----------------------------------------------------------------------------
(* Bounds of the model.                                                    *)

\* requests the client sends on a connection with peers
MaxRequests == 2
\* requests the client sends on a connection without peers
MaxSingleRequests == 3
\* requests a client sends in a run of SpecLive
MaxLiveRequests == 1
\* "Read error" log lines are counted 1, 2, .., MaxReadErrors, 1, 2, ..
MaxReadErrors == 2

-----------------------------------------------------------------------------
(* strconv and strings                                                     *)

Digits == <<"0", "1", "2", "3", "4", "5", "6", "7", "8", "9">>

IsDigit(c) == \E i \in 1..10 : Digits[i] = c

DigitVal(c) == (CHOOSE i \in 1..10 : Digits[i] = c) - 1

RECURSIVE DecVal(_)
DecVal(s) ==
    IF s = <<>> THEN 0
    ELSE 10 * DecVal(SubSeq(s, 1, Len(s) - 1)) + DigitVal(s[Len(s)])

\* strconv.Atoi: an optional sign, then one or more decimal digits.  (The
\* inputs here have at most 9 digits, so the range error cannot occur.)
Atoi(s) ==
    LET signed == s # <<>> /\ s[1] \in {"+", "-"}
        body == IF signed THEN Tail(s) ELSE s
    IN  IF body = <<>> \/ \E i \in 1..Len(body) : ~IsDigit(body[i])
        THEN [ok |-> FALSE, val |-> 0]
        ELSE [ok |-> TRUE,
              val |-> IF signed /\ s[1] = "-" THEN 0 - DecVal(body)
                      ELSE DecVal(body)]

\* strconv.Itoa of a non-negative int
RECURSIVE Itoa(_)
Itoa(n) ==
    IF n < 10 THEN <<Digits[n + 1]>>
    ELSE Itoa(n \div 10) \o <<Digits[(n % 10) + 1]>>

\* strings.HasPrefix
HasPrefix(s, p) == Len(s) >= Len(p) /\ SubSeq(s, 1, Len(p)) = p

-----------------------------------------------------------------------------
(* parser.go                                                               *)

putCommand == 0
getCommand == 1
deleteCommand == 2
closeCommand == 3

putPrefix == <<"p", "u", "t">>
getPrefix == <<"g", "e", "t">>
delPrefix == <<"d", "e", "l">>
byePrefix == <<"b", "y", "e">>

\* commandRequest{command, key, value, length}
commandRequest(c, k, v, n) ==
    [command |-> c, key |-> k, value |-> v, length |-> n]

NoCommand == commandRequest(0 - 1, <<>>, <<>>, 0)

\* a result of parseArgument: (argument, remaining, incomplete, err), or the
\* run-time panic of a slice expression whose bounds are out of range
ArgResult(a, r, inc, e) ==
    [arg |-> a, rest |-> r, incomplete |-> inc, err |-> e, panic |-> FALSE]

ArgPanic(b) ==
    [arg |-> <<>>, rest |-> b, incomplete |-> FALSE, err |-> FALSE, panic |-> TRUE]

\* a parseArgument that reports an error for an input of less than 3 bytes
parseArgument_ShortIsError(buf) ==
    IF Len(buf) < 3 THEN ArgResult(<<>>, buf, FALSE, TRUE)
    ELSE
      LET part1 == Atoi(SubSeq(buf, 1, 1))
          argumentSizeLength == part1.val
      IN
      IF ~part1.ok THEN ArgResult(<<>>, buf, FALSE, TRUE)
      ELSE IF Len(buf) < argumentSizeLength + 1
      THEN ArgResult(<<>>, buf, TRUE, FALSE)
      ELSE
        LET part2 == Atoi(SubSeq(buf, 2, argumentSizeLength + 1))
            argumentSize == part2.val
        IN
        IF ~part2.ok THEN ArgResult(<<>>, buf, FALSE, TRUE)
        ELSE IF Len(buf) < argumentSize + argumentSizeLength + 1
        THEN ArgResult(<<>>, buf, TRUE, FALSE)
        ELSE IF argumentSize < 0
        \* buffer[argumentSizeLength+1 : argumentSizeLength+argumentSize+1]
        \* with high < low
        THEN ArgPanic(buf)
        ELSE ArgResult(
               SubSeq(buf, argumentSizeLength + 2,
                      argumentSizeLength + argumentSize + 1),
               SubSeq(buf, argumentSizeLength + argumentSize + 2, Len(buf)),
               FALSE, FALSE)

\* a parseArgument that, on an incomplete input, returns no remainder
parseArgument_IncompleteDropsInput(buf) ==
    IF Len(buf) < 3 THEN ArgResult(<<>>, <<>>, TRUE, FALSE)
    ELSE
      LET part1 == Atoi(SubSeq(buf, 1, 1))
          part2 == Atoi(SubSeq(buf, 2, part1.val + 1))
      IN
      IF ~part1.ok THEN ArgResult(<<>>, buf, FALSE, TRUE)
      ELSE IF Len(buf) < part1.val + 1
      THEN ArgResult(<<>>, <<>>, TRUE, FALSE)
      ELSE IF ~part2.ok THEN ArgResult(<<>>, buf, FALSE, TRUE)
      ELSE IF Len(buf) < part2.val + part1.val + 1
      THEN ArgResult(<<>>, <<>>, TRUE, FALSE)
      ELSE IF part2.val < 0 THEN ArgPanic(buf)
      ELSE ArgResult(
             SubSeq(buf, part1.val + 2, part1.val + part2.val + 1),
             SubSeq(buf, part1.val + part2.val + 2, Len(buf)),
             FALSE, FALSE)

parseArgument(buf) ==
    \* "string too short for all parts of an argument to be present"
    IF Len(buf) < 3 THEN ArgResult(<<>>, buf, TRUE, FALSE)
    ELSE
      LET part1 == Atoi(SubSeq(buf, 1, 1))
          argumentSizeLength == part1.val
      IN
      IF ~part1.ok THEN ArgResult(<<>>, buf, FALSE, TRUE)
      ELSE IF Len(buf) < argumentSizeLength + 1
      THEN ArgResult(<<>>, buf, TRUE, FALSE)
      ELSE
        LET part2 == Atoi(SubSeq(buf, 2, argumentSizeLength + 1))
            argumentSize == part2.val
        IN
        IF ~part2.ok THEN ArgResult(<<>>, buf, FALSE, TRUE)
        ELSE IF Len(buf) < argumentSize + argumentSizeLength + 1
        THEN ArgResult(<<>>, buf, TRUE, FALSE)
        ELSE IF argumentSize < 0
        \* buffer[argumentSizeLength+1 : argumentSizeLength+argumentSize+1]
        \* with high < low
        THEN ArgPanic(buf)
        ELSE ArgResult(
               SubSeq(buf, argumentSizeLength + 2,
                      argumentSizeLength + argumentSize + 1),
               SubSeq(buf, argumentSizeLength + argumentSize + 2, Len(buf)),
               FALSE, FALSE)

formatArgument(input) ==
    LET part3 == input
        part2 == Itoa(Len(part3))
        part1 == Itoa(Len(part2))
    IN  part1 \o part2 \o part3

\* a result of parsePutCommand, parseGetCommand, parseDeleteCommand:
\* (command, incomplete, err), or a panic
CmdResult(c, inc, e) ==
    [cmd |-> c, incomplete |-> inc, err |-> e, panic |-> FALSE]

CmdPanic == [cmd |-> NoCommand, incomplete |-> FALSE, err |-> FALSE, panic |-> TRUE]

parsePutCommand(buf) ==
    LET a1 == parseArgument(SubSeq(buf, 4, Len(buf))) IN
    IF a1.panic THEN CmdPanic
    ELSE IF a1.err THEN CmdResult(NoCommand, FALSE, TRUE)
    ELSE IF a1.incomplete THEN CmdResult(NoCommand, TRUE, FALSE)
    ELSE
      LET a2 == parseArgument(a1.rest) IN
      IF a2.panic THEN CmdPanic
      ELSE IF a2.err THEN CmdResult(NoCommand, FALSE, TRUE)
      ELSE IF a2.incomplete THEN CmdResult(NoCommand, TRUE, FALSE)
      ELSE CmdResult(commandRequest(putCommand, a1.arg, a2.arg, 0), FALSE, FALSE)

parseGetCommand(buf) ==
    LET a1 == parseArgument(SubSeq(buf, 4, Len(buf)))
        remaining == a1.rest
    IN
    IF a1.panic THEN CmdPanic
    ELSE IF a1.incomplete THEN CmdResult(NoCommand, TRUE, FALSE)
    ELSE IF a1.err THEN CmdResult(NoCommand, FALSE, TRUE)
    ELSE IF Len(remaining) < 1 THEN CmdResult(NoCommand, TRUE, FALSE)
    ELSE
      LET size == Atoi(SubSeq(remaining, 1, 1))
          variableLengthSize == size.val
      IN
      IF ~size.ok THEN CmdResult(NoCommand, FALSE, TRUE)
      ELSE IF variableLengthSize = 0
      THEN CmdResult(commandRequest(getCommand, a1.arg, <<>>, 0), FALSE, FALSE)
      ELSE IF Len(remaining) < variableLengthSize + 1
      THEN CmdResult(NoCommand, TRUE, FALSE)
      ELSE
        LET variableLength == Atoi(SubSeq(remaining, 2, variableLengthSize + 1)) IN
        IF ~variableLength.ok THEN CmdResult(NoCommand, FALSE, TRUE)
        ELSE CmdResult(commandRequest(getCommand, a1.arg, <<>>, variableLength.val),
                       FALSE, FALSE)

parseDeleteCommand(buf) ==
    LET a1 == parseArgument(SubSeq(buf, 4, Len(buf))) IN
    IF a1.panic THEN CmdPanic
    ELSE IF a1.err THEN CmdResult(NoCommand, FALSE, TRUE)
    ELSE IF a1.incomplete THEN CmdResult(NoCommand, TRUE, FALSE)
    ELSE CmdResult(commandRequest(deleteCommand, a1.arg, <<>>, 0), FALSE, FALSE)

\* parseCommand's three outcomes (command, nil), (nil, nil), (nil, err) are
\* kind "complete", "incomplete", "invalid"; "panic" is the run-time panic.
Outcome(r) ==
    IF r.panic THEN [kind |-> "panic", cmd |-> NoCommand]
    ELSE IF r.err THEN [kind |-> "invalid", cmd |-> NoCommand]
    ELSE IF r.incomplete THEN [kind |-> "incomplete", cmd |-> NoCommand]
    ELSE [kind |-> "complete", cmd |-> r.cmd]

\* a default case that waits for a fourth byte before it gives up
parseCommand_FourBytes(buf) ==
    Outcome(IF HasPrefix(buf, putPrefix) THEN parsePutCommand(buf)
            ELSE IF HasPrefix(buf, getPrefix) THEN parseGetCommand(buf)
            ELSE IF HasPrefix(buf, delPrefix) THEN parseDeleteCommand(buf)
            ELSE IF HasPrefix(buf, byePrefix)
            THEN CmdResult(commandRequest(closeCommand, <<>>, <<>>, 0),
                           FALSE, FALSE)
            ELSE CmdResult(NoCommand, TRUE, Len(buf) > 3))

parseCommand(buf) ==
    Outcome(IF HasPrefix(buf, putPrefix) THEN parsePutCommand(buf)
            ELSE IF HasPrefix(buf, getPrefix) THEN parseGetCommand(buf)
            ELSE IF HasPrefix(buf, delPrefix) THEN parseDeleteCommand(buf)
            ELSE IF HasPrefix(buf, byePrefix)
            THEN CmdResult(commandRequest(closeCommand, <<>>, <<>>, 0),
                           FALSE, FALSE)
            ELSE CmdResult(NoCommand, TRUE, Len(buf) > 2))

-----------------------------------------------------------------------------
(* handler.go: constants, and the commandRequest with its original text     *)

\* in milliseconds
commandTimeout == 500
closeRequest == <<"b", "y", "e">>
ackResponse == <<"a", "c", "k">>
errorResponse == <<"e", "r", "r">>
nilResponse == <<"n", "i", "l">>
valPrefix == <<"v", "a", "l">>

\* The commandRequest that handle passes on carries, as its fifth field, the
\* text it was parsed from: the whole buffer (parser_test.go expects
\* commandRequest{putCommand, "a", "foo", 0, text} of parseCommand(text)).
WithOriginalText(cmd, buf) ==
    [command |-> cmd.command, key |-> cmd.key, value |-> cmd.value,
     length |-> cmd.length, originalText |-> buf]

NoRequest == WithOriginalText(NoCommand, <<>>)

Min(a, b) == IF a < b THEN a ELSE b

\* the granularity of the clock: half a commandTimeout
TickMs == commandTimeout \div 2

-----------------------------------------------------------------------------
(* kvstore: the store worker of handleStoreOperations                      *)

readOperation == 0
writeOperation == 1
deleteOperation == 2
closeOperation == 3

operationRequest(op, k, v) == [op |-> op, key |-> k, value |-> v]

NoOperation == operationRequest(0 - 1, <<>>, <<>>)

\* store.data is a set of <<key, value>> pairs with at most one pair per key
Present(d, k) == \E p \in d : p[1] = k

ValueOf(d, k) == IF Present(d, k) THEN (CHOOSE p \in d : p[1] = k)[2] ELSE <<>>

\* value, present := store.data[request.key]
StoreRead(d, k) == [value |-> ValueOf(d, k), present |-> Present(d, k)]

\* a write that does not replace the value a key already has
StoreWrite_KeepsFirst(d, k, v) ==
    IF Present(d, k) THEN d ELSE d \cup {<<k, v>>}

\* a write that makes the map anew, of the one entry
StoreWrite_Replaces(d, k, v) == {<<k, v>>}

\* store.data[request.key] = request.value
StoreWrite(d, k, v) == {p \in d : p[1] # k} \cup {<<k, v>>}

\* a delete that leaves the key in the map
StoreDelete_Keeps(d, k) == d

\* delete(store.data, request.key)
StoreDelete(d, k) == {p \in d : p[1] # k}

\* the map after the worker has performed operation o
StoreApply(d, o) ==
    IF o.op = writeOperation THEN StoreWrite(d, o.key, o.value)
    ELSE IF o.op = deleteOperation THEN StoreDelete(d, o.key)
    ELSE d

-----------------------------------------------------------------------------
(* handler.go: the local-dispatch goroutine's translation                  *)

\* the store operation the local-dispatch goroutine asks for
OperationOf(req) ==
    IF req.command = putCommand THEN operationRequest(writeOperation, req.key, req.value)
    ELSE IF req.command = getCommand THEN operationRequest(readOperation, req.key, <<>>)
    ELSE operationRequest(deleteOperation, req.key, <<>>)

\* value[:request.length] panics when length is negative
GetPanics(read, req) == read.present /\ req.length < 0

\* a get that pays no attention to the requested length
handleVariableLengthGet_Whole(read, req) ==
    IF ~read.present THEN nilResponse
    ELSE valPrefix \o formatArgument(read.value)

handleVariableLengthGet(read, req) ==
    IF ~read.present THEN nilResponse
    ELSE IF req.length = 0 \/ req.length > Len(read.value)
    THEN valPrefix \o formatArgument(read.value)
    ELSE valPrefix \o formatArgument(SubSeq(read.value, 1, req.length))

\* a switch that answers ack to a close, as it does to a put
LocalResponse_CloseAcks(req, read) ==
    IF req.command = putCommand THEN ackResponse
    ELSE IF req.command = getCommand THEN handleVariableLengthGet(read, req)
    ELSE IF req.command = deleteCommand THEN ackResponse
    ELSE IF req.command = closeCommand THEN ackResponse
    ELSE errorResponse

\* a switch that answers err to the delete of a key the store does not hold
LocalResponse_DeleteNeedsKey(req, read) ==
    IF req.command = putCommand THEN ackResponse
    ELSE IF req.command = getCommand THEN handleVariableLengthGet(read, req)
    ELSE IF req.command = deleteCommand
    THEN (IF read.present THEN ackResponse ELSE errorResponse)
    ELSE IF req.command = closeCommand THEN closeRequest
    ELSE errorResponse

\* the response of the switch over request.command, given the store's answer
LocalResponse(req, read) ==
    IF req.command = putCommand THEN ackResponse
    ELSE IF req.command = getCommand THEN handleVariableLengthGet(read, req)
    ELSE IF req.command = deleteCommand THEN ackResponse
    ELSE IF req.command = closeCommand THEN closeRequest
    ELSE errorResponse

\* a relay that forwards puts only
IsReplicated_PutOnly(c) == c = putCommand

\* every command replicated
IsReplicated_All(c) == TRUE

\* "only replicate commands that change data"
IsReplicated(c) == c = putCommand \/ c = deleteCommand

\* the command written anew from its key and value
ReplicatedText_Reencoded(req) ==
    IF req.command = putCommand
    THEN putPrefix \o formatArgument(req.key) \o formatArgument(req.value)
    ELSE delPrefix \o formatArgument(req.key)

\* what the relay writes to its peer link
ReplicatedText(req) == req.originalText

-----------------------------------------------------------------------------
(* The client.  It writes one whole request at a time and, like             *)
(* checkRequestResponse of the tests and the harness, writes the next one   *)
(* once it has read a response for each request it wrote.                   *)

ClientSend ==
    /\ ~crashed /\ clientOpen /\ ~connClosed
    /\ Len(sent) < budget
    /\ Len(replies) >= Len(sent)
    /\ \E r \in menu :
         /\ sent' = Append(sent, r)
         /\ stream' = stream \o r
    /\ UNCHANGED <<clientOpen, replies, handlerVars, timeVars, localVars,
                   storeVars, relayVars, configVars, crashed, codecVars, sharedVars, clusterVars>>

\* the client, awaiting no response, closes its end: once the bytes in
\* flight are read, every Read of clientConn returns 0 bytes and io.EOF
ClientClose ==
    /\ ~crashed /\ clientOpen /\ ~connClosed
    /\ Len(replies) >= Len(sent)
    /\ clientOpen' = FALSE
    /\ UNCHANGED <<sent, stream, replies, handlerVars, timeVars, localVars,
                   storeVars, relayVars, configVars, crashed, codecVars, sharedVars, clusterVars>>

\* a handler that goes on into the error branch after writing a response
ClientWrite_ThenErr(msg) ==
    IF clientOpen THEN Append(Append(replies, msg), errorResponse) ELSE replies

\* reliableWrite(clientConn, msg): what reaches the client
ClientWrite(msg) == IF clientOpen THEN Append(replies, msg) ELSE replies

-----------------------------------------------------------------------------
(* handle: one pass of the for loop, from reliableRead to the verdict of    *)
(* parseCommand.  With a command the pass goes on in performCommand.        *)

\* a handler that closes the connection on a malformed request
AfterRead_InvalidCloses(buf) ==
    \E res \in {parseCommand(buf)} :
    IF res.kind = "panic"
    THEN /\ crashed' = TRUE
         /\ buffer' = buf
         /\ UNCHANGED <<hpc, request, replies>>
    ELSE IF res.kind = "complete"
    THEN /\ hpc' = "fanoutLocal"
         /\ buffer' = buf
         /\ request' = WithOriginalText(res.cmd, buf)
         /\ UNCHANGED <<replies, crashed>>
    ELSE IF res.kind = "invalid"
    THEN /\ replies' = ClientWrite(errorResponse)
         /\ buffer' = <<>>
         /\ hpc' = "returned"
         /\ UNCHANGED <<request, crashed>>
    ELSE /\ buffer' = buf
         /\ UNCHANGED <<hpc, request, replies, crashed>>

\* a pass that answers err and keeps what it has read
AfterRead_KeepsInvalid(buf) ==
    \E res \in {parseCommand(buf)} :
    IF res.kind = "panic"
    THEN /\ crashed' = TRUE
         /\ buffer' = buf
         /\ UNCHANGED <<hpc, request, replies>>
    ELSE IF res.kind = "complete"
    THEN /\ hpc' = "fanoutLocal"
         /\ buffer' = buf
         /\ request' = WithOriginalText(res.cmd, buf)
         /\ UNCHANGED <<replies, crashed>>
    ELSE IF res.kind = "invalid"
    THEN /\ replies' = ClientWrite(errorResponse)
         /\ buffer' = buf
         /\ UNCHANGED <<hpc, request, crashed>>
    ELSE /\ buffer' = buf
         /\ UNCHANGED <<hpc, request, replies, crashed>>

AfterRead(buf) ==
    \E res \in {parseCommand(buf)} :
    IF res.kind = "panic"
    THEN /\ crashed' = TRUE
         /\ buffer' = buf
         /\ UNCHANGED <<hpc, request, replies>>
    ELSE IF res.kind = "complete"
    THEN \* command != nil: performCommand is called
         /\ hpc' = "fanoutLocal"
         /\ buffer' = buf
         /\ request' = WithOriginalText(res.cmd, buf)
         /\ UNCHANGED <<replies, crashed>>
    ELSE IF res.kind = "invalid"
    THEN \* err != nil: write errorResponse, wipe the buffer
         /\ replies' = ClientWrite(errorResponse)
         /\ buffer' = <<>>
         /\ UNCHANGED <<hpc, request, crashed>>
    ELSE /\ buffer' = buf
         /\ UNCHANGED <<hpc, request, replies, crashed>>

\* reliableRead(clientConn, 1) returns one byte
HandleRead ==
    /\ ~crashed /\ hpc = "read" /\ stream # <<>>
    /\ stream' = Tail(stream)
    /\ AfterRead(Append(buffer, Head(stream)))
    /\ UNCHANGED <<sent, clientOpen, response, numAcks, fanIdx, readErrors,
                   connClosed, performed, timeVars, localVars, storeVars,
                   relayVars, configVars, codecVars, sharedVars, clusterVars>>

\* reliableRead(clientConn, 1) returns "" and an error: the error is logged
\* and the pass goes on with buffer += ""
HandleReadError ==
    /\ ~crashed /\ hpc = "read" /\ stream = <<>> /\ ~clientOpen
    /\ readErrors' = IF readErrors < MaxReadErrors THEN readErrors + 1 ELSE 1
    /\ AfterRead(buffer \o <<>>)
    /\ UNCHANGED <<sent, stream, clientOpen, response, numAcks, fanIdx,
                   connClosed, performed, timeVars, localVars, storeVars,
                   relayVars, configVars, codecVars, sharedVars, clusterVars>>

-----------------------------------------------------------------------------
(* performCommand: the fan-out                                              *)

\* the state in which the fan-in loop is entered
EnterFanIn ==
    /\ hpc' = "fanin"
    /\ response' = <<>>
    /\ numAcks' = 0
    /\ elapsed' = 0
    /\ armed' = 0

\* a send that goes through while the local-dispatch goroutine still offers
\* the response of the command before, which is then this command's
FanOutLocal_LeavesLateResponse ==
    /\ ~crashed /\ hpc = "fanoutLocal" /\ lpc \in {"recv", "respond"}
    /\ lreq' = request
    /\ lpc' = IF lpc = "respond" THEN "respond" ELSE "work"
    /\ IF npeers = 0
       THEN EnterFanIn /\ UNCHANGED fanIdx
       ELSE /\ hpc' = "fanoutPeer"
            /\ fanIdx' = 1
            /\ UNCHANGED <<response, numAcks, elapsed, armed>>
    /\ UNCHANGED <<clientVars, buffer, request, readErrors, connClosed,
                   performed, lresp, storeVars, relayVars, configVars, crashed,
                   codecVars, sharedVars, clusterVars>>

\* a local-dispatch goroutine that takes the next request whatever it is doing
FanOutLocal_Preempts ==
    /\ ~crashed /\ hpc = "fanoutLocal" /\ lpc # "exited"
    /\ lreq' = request
    /\ lpc' = "work"
    /\ IF npeers = 0
       THEN EnterFanIn /\ UNCHANGED fanIdx
       ELSE /\ hpc' = "fanoutPeer"
            /\ fanIdx' = 1
            /\ UNCHANGED <<response, numAcks, elapsed, armed>>
    /\ UNCHANGED <<clientVars, buffer, request, readErrors, connClosed,
                   performed, lresp, storeVars, relayVars, configVars, crashed,
                   codecVars, sharedVars, clusterVars>>

\* localStoreChannel <- request, received by the local-dispatch goroutine
FanOutLocal ==
    /\ ~crashed /\ hpc = "fanoutLocal" /\ lpc = "recv"
    /\ lreq' = request
    /\ lpc' = "work"
    /\ IF npeers = 0
       THEN EnterFanIn /\ UNCHANGED fanIdx
       ELSE /\ hpc' = "fanoutPeer"
            /\ fanIdx' = 1
            /\ UNCHANGED <<response, numAcks, elapsed, armed>>
    /\ UNCHANGED <<clientVars, buffer, request, readErrors, connClosed,
                   performed, lresp, storeVars, relayVars, configVars, crashed,
                   codecVars, sharedVars, clusterVars>>

\* peerChannel <- request, received by relay fanIdx, which goes on to
\* replicate the command or, for a get or a close, to signal at once
FanOutPeer ==
    /\ ~crashed /\ hpc = "fanoutPeer" /\ rpc[fanIdx] = "recv"
    /\ rreq' = [rreq EXCEPT ![fanIdx] = request]
    /\ rpc' = [rpc EXCEPT ![fanIdx] =
                 IF IsReplicated(request.command) THEN "write" ELSE "signal"]
    /\ IF fanIdx = npeers
       THEN EnterFanIn /\ UNCHANGED fanIdx
       ELSE /\ fanIdx' = fanIdx + 1
            /\ UNCHANGED <<hpc, response, numAcks, elapsed, armed>>
    /\ UNCHANGED <<clientVars, buffer, request, readErrors, connClosed,
                   performed, localVars, storeVars, npeers, link, wire,
                   configVars, crashed, codecVars, sharedVars, clusterVars>>

-----------------------------------------------------------------------------
(* performCommand: the fan-in loop.  Every pass of the loop enters the      *)
(* select anew, and entering it evaluates time.After(commandTimeout): a new *)
(* timer each pass.  The timer case can proceed only when commandTimeout    *)
(* has passed between arming that timer and polling it.                     *)

\* time passes while a fan-in is running: elapsed is the time since the
\* fan-in began and armed the time since the pending timer was armed, both
\* counted up to commandTimeout and no further
Tick ==
    /\ ~crashed /\ hpc = "fanin"
    /\ armed < commandTimeout
    /\ elapsed' = Min(elapsed + TickMs, commandTimeout)
    /\ armed' = Min(armed + TickMs, commandTimeout)
    /\ UNCHANGED <<clientVars, handlerVars, localVars, storeVars, relayVars,
                   configVars, crashed, codecVars, sharedVars, clusterVars>>

\* what handle does with performCommand's result resp
Finish(resp, late) ==
    /\ performed' = Append(performed,
                      [cmd |-> request, got |-> resp, timedOut |-> late])
    /\ request' = NoRequest
    /\ response' = <<>>
    /\ numAcks' = 0
    /\ fanIdx' = 1
    /\ elapsed' = 0
    /\ armed' = 0
    /\ IF resp = closeRequest
       THEN \* return, and the deferred function closes every connection
            /\ hpc' = "returned"
            /\ connClosed' = TRUE
            /\ link' = [i \in DOMAIN link |-> "closed"]
            /\ UNCHANGED <<replies, buffer>>
       ELSE /\ replies' = IF resp # <<>> THEN ClientWrite(resp) ELSE replies
            /\ buffer' = <<>>
            /\ hpc' = "read"
            /\ UNCHANGED <<connClosed, link>>

\* an acknowledgement counted from a relay that stays at its send and
\* signals again
FanInAck_RelaySignalsAgain(i) ==
    /\ ~crashed /\ hpc = "fanin" /\ rpc[i] = "signal"
    /\ numAcks' = numAcks + 1
    /\ armed' = 0
    /\ UNCHANGED <<clientVars, hpc, buffer, request, response, fanIdx,
                   readErrors, connClosed, performed, elapsed, localVars,
                   storeVars, relayVars, configVars, crashed,
                   codecVars, sharedVars, clusterVars>>

\* case <-ackChannel, sent by relay i, which then loops or, after a close,
\* returns
FanInAck(i) ==
    /\ ~crashed /\ hpc = "fanin" /\ rpc[i] = "signal"
    /\ numAcks' = numAcks + 1
    /\ rpc' = [rpc EXCEPT ![i] =
                 IF rreq[i].command = closeCommand THEN "exited" ELSE "recv"]
    /\ rreq' = [rreq EXCEPT ![i] = NoRequest]
    /\ armed' = 0
    /\ UNCHANGED <<clientVars, hpc, buffer, request, response, fanIdx,
                   readErrors, connClosed, performed, elapsed, localVars,
                   storeVars, npeers, link, wire, configVars, crashed,
                   codecVars, sharedVars, clusterVars>>

\* case r := <-responseChannel, sent by the local-dispatch goroutine, which
\* then loops or, after a close, returns
FanInResponse ==
    /\ ~crashed /\ hpc = "fanin" /\ lpc = "respond"
    /\ response' = lresp
    /\ lpc' = IF lreq.command = closeCommand THEN "exited" ELSE "recv"
    /\ lreq' = NoRequest
    /\ lresp' = <<>>
    /\ armed' = 0
    /\ UNCHANGED <<clientVars, hpc, buffer, request, numAcks, fanIdx,
                   readErrors, connClosed, performed, elapsed, storeVars,
                   relayVars, configVars, crashed, codecVars, sharedVars, clusterVars>>

\* case <-time.After(commandTimeout)
\* a timeout case that answers err whatever has been received
FanInTimeout_AlwaysErr ==
    /\ ~crashed /\ hpc = "fanin" /\ armed >= commandTimeout
    /\ Finish(errorResponse, TRUE)
    /\ UNCHANGED <<sent, stream, clientOpen, readErrors, localVars,
                   storeVars, npeers, rpc, rreq, wire,
                   configVars, crashed, codecVars, sharedVars, clusterVars>>

FanInTimeout ==
    /\ ~crashed /\ hpc = "fanin" /\ armed >= commandTimeout
    /\ Finish(IF response = <<>> THEN errorResponse ELSE response, TRUE)
    /\ UNCHANGED <<sent, stream, clientOpen, readErrors, localVars,
                   storeVars, npeers, rpc, rreq, wire,
                   configVars, crashed, codecVars, sharedVars, clusterVars>>

\* no case of the select can proceed
DefaultCase ==
    /\ hpc = "fanin"
    /\ \A i \in 1..npeers : rpc[i] # "signal"
    /\ lpc # "respond"
    /\ armed < commandTimeout

\* a default case that returns as soon as the response is in
FanInSettle_WithoutAcks ==
    /\ ~crashed /\ DefaultCase
    /\ response # <<>>
    /\ Finish(response, FALSE)
    /\ UNCHANGED <<sent, stream, clientOpen, readErrors, localVars,
                   storeVars, npeers, rpc, rreq, wire,
                   configVars, crashed, codecVars, sharedVars, clusterVars>>

\* default, with numAcks == len(peerChannels) && response != ""
FanInSettle ==
    /\ ~crashed /\ DefaultCase
    /\ numAcks = npeers /\ response # <<>>
    /\ Finish(response, FALSE)
    /\ UNCHANGED <<sent, stream, clientOpen, readErrors, localVars,
                   storeVars, npeers, rpc, rreq, wire,
                   configVars, crashed, codecVars, sharedVars, clusterVars>>

\* default, with that condition false: the loop goes round, and the next
\* select arms a new timer
FanInPoll ==
    /\ ~crashed /\ DefaultCase
    /\ ~(numAcks = npeers /\ response # <<>>)
    /\ armed > 0
    /\ armed' = 0
    /\ UNCHANGED <<clientVars, handlerVars, elapsed, localVars, storeVars,
                   relayVars, configVars, crashed, codecVars, sharedVars, clusterVars>>

-----------------------------------------------------------------------------
(* The relay goroutines and their peer links.  wire[i] holds, per write of  *)
(* relay i, the bytes that reached peer link i and whether the write        *)
(* returned without error.                                                  *)

\* the bytes that reach the peer when the link fails during a write
PartialWrites(text) == {SubSeq(text, 1, Len(text) - 1)}

\* a relay that acknowledges after its write, without the 3-byte read
RelayWrite_SkipsRead(i) ==
    /\ ~crashed /\ rpc[i] = "write"
    /\ rpc' = [rpc EXCEPT ![i] = "signal"]
    /\ wire' = [wire EXCEPT ![i] =
         Append(@, [text |-> ReplicatedText(rreq[i]), ok |-> link[i] = "open"])]
    /\ UNCHANGED <<clientVars, handlerVars, timeVars, localVars, storeVars,
                   npeers, rreq, link, configVars, crashed, codecVars,
                   sharedVars, clusterVars>>

\* reliableWrite(conn, request.originalText); its error is dropped
RelayWrite(i) ==
    /\ ~crashed /\ rpc[i] = "write"
    /\ rpc' = [rpc EXCEPT ![i] = "read"]
    /\ IF link[i] = "open"
       THEN \/ /\ wire' = [wire EXCEPT ![i] =
                    Append(@, [text |-> ReplicatedText(rreq[i]), ok |-> TRUE])]
               /\ UNCHANGED link
            \/ \E part \in PartialWrites(ReplicatedText(rreq[i])) :
               /\ wire' = [wire EXCEPT ![i] =
                    Append(@, [text |-> part, ok |-> FALSE])]
               /\ link' = [link EXCEPT ![i] = "broken"]
       ELSE /\ wire' = [wire EXCEPT ![i] =
                    Append(@, [text |-> <<>>, ok |-> FALSE])]
            /\ UNCHANGED link
    /\ UNCHANGED <<clientVars, handlerVars, timeVars, localVars, storeVars,
                   npeers, rreq, configVars, crashed, codecVars, sharedVars, clusterVars>>

\* the peer has read the command and answers its three bytes:
\* reliableRead(conn, 3) returns
PeerReply(i) ==
    /\ ~crashed /\ rpc[i] = "read" /\ link[i] = "open"
    /\ rpc' = [rpc EXCEPT ![i] = "signal"]
    /\ UNCHANGED <<clientVars, handlerVars, timeVars, localVars, storeVars,
                   npeers, rreq, link, wire, configVars, crashed, codecVars, sharedVars, clusterVars>>

\* reliableRead(conn, 3) returns an error, which is dropped
RelayReadError(i) ==
    /\ ~crashed /\ rpc[i] = "read" /\ link[i] # "open"
    /\ rpc' = [rpc EXCEPT ![i] = "signal"]
    /\ UNCHANGED <<clientVars, handlerVars, timeVars, localVars, storeVars,
                   npeers, rreq, link, wire, configVars, crashed, codecVars, sharedVars, clusterVars>>

\* the peer, or the network, drops the link while the relay waits for the
\* peer's answer.  (A link that fails earlier is seen to have failed at the
\* relay's write.)
LinkBreak(i) ==
    /\ ~crashed /\ link[i] = "open"
    /\ rpc[i] = "read"
    /\ link' = [link EXCEPT ![i] = "broken"]
    /\ UNCHANGED <<clientVars, handlerVars, timeVars, localVars, storeVars,
                   npeers, rpc, rreq, wire, configVars, crashed, codecVars, sharedVars, clusterVars>>

-----------------------------------------------------------------------------
(* The local-dispatch goroutine and the store worker.                       *)

\* kvstore.Write, Read or Delete: s.requestChannel <- &operationRequest{...},
\* received by the worker
LocalCall ==
    /\ ~crashed /\ lpc = "work" /\ lreq.command # closeCommand
    /\ storeState = "Running" /\ storeCur = NoOperation
    /\ storeCur' = OperationOf(lreq)
    /\ lpc' = "await"
    /\ UNCHANGED <<clientVars, handlerVars, timeVars, lreq, lresp, storeState,
                   data, relayVars, configVars, crashed, codecVars, sharedVars, clusterVars>>

\* kvstore.Close: the worker receives the closeOperation and returns; Close
\* waits for no response, and the response is closeRequest
LocalClose ==
    /\ ~crashed /\ lpc = "work" /\ lreq.command = closeCommand
    /\ storeState = "Running" /\ storeCur = NoOperation
    /\ storeState' = "Stopped"
    /\ lresp' = LocalResponse(lreq, StoreRead(data, lreq.key))
    /\ lpc' = "respond"
    /\ UNCHANGED <<clientVars, handlerVars, timeVars, lreq, storeCur, data,
                   relayVars, configVars, crashed, codecVars, sharedVars, clusterVars>>

\* the worker performs the operation it holds and answers on the request's
\* responseChannel; the local-dispatch goroutine makes its response of it
StoreProcess ==
    /\ ~crashed /\ storeCur # NoOperation /\ lpc = "await"
    /\ data' = StoreApply(data, storeCur)
    /\ storeCur' = NoOperation
    /\ LET read == StoreRead(data, storeCur.key) IN
       IF lreq.command = getCommand /\ GetPanics(read, lreq)
       THEN crashed' = TRUE /\ UNCHANGED <<lpc, lresp>>
       ELSE /\ lresp' = LocalResponse(lreq, read)
            /\ lpc' = "respond"
            /\ UNCHANGED crashed
    /\ UNCHANGED <<clientVars, handlerVars, timeVars, lreq, storeState,
                   relayVars, configVars, codecVars, sharedVars, clusterVars>>

-----------------------------------------------------------------------------
(* The codec experiments: parser.go applied to chosen inputs.               *)

\* the longest payload drawn from PayloadBytes
MaxPayloadLen == 2
\* the length of the one long payload (a length of two digits)
LongPayloadLen == 10

PayloadBytes == {"a", "1"}

RECURSIVE SeqsUpTo(_, _)
SeqsUpTo(S, n) ==
    IF n = 0 THEN {<<>>}
    ELSE LET shorter == SeqsUpTo(S, n - 1) IN
         shorter \cup {Append(q, c) : q \in shorter, c \in S}

Payloads == SeqsUpTo(PayloadBytes, MaxPayloadLen)
              \cup {[i \in 1..LongPayloadLen |-> "k"]}

CodecKeys == {<<>>, <<"a">>, <<"1", "2">>}
CodecValues == {<<>>, <<"x">>, <<"x", "y">>}
CodecLengths == {0, 1, 12}

ValidCommands ==
    {commandRequest(putCommand, k, v, 0) : k \in CodecKeys, v \in CodecValues}
      \cup {commandRequest(getCommand, k, <<>>, n) : k \in CodecKeys, n \in CodecLengths}
      \cup {commandRequest(deleteCommand, k, <<>>, 0) : k \in CodecKeys}
      \cup {commandRequest(closeCommand, <<>>, <<>>, 0)}

\* the request a client writes for a command (the wire format)
Encode(cmd) ==
    IF cmd.command = putCommand
    THEN putPrefix \o formatArgument(cmd.key) \o formatArgument(cmd.value)
    ELSE IF cmd.command = getCommand
    THEN getPrefix \o formatArgument(cmd.key)
           \o (IF cmd.length = 0 THEN <<"0">>
               ELSE Itoa(Len(Itoa(cmd.length))) \o Itoa(cmd.length))
    ELSE IF cmd.command = deleteCommand
    THEN delPrefix \o formatArgument(cmd.key)
    ELSE byePrefix

\* the request for a command with the length of a get always written as a
\* count of digits and the digits ("get11b3123"), also when it is 0
EncodeCounted(cmd) ==
    IF cmd.command = getCommand
    THEN getPrefix \o formatArgument(cmd.key)
           \o Itoa(Len(Itoa(cmd.length))) \o Itoa(cmd.length)
    ELSE Encode(cmd)

\* the commands encoded whole, one of them a get with a length of ten digits
RoundTripCommands ==
    ValidCommands \cup {commandRequest(getCommand, <<"a">>, <<>>, 1000000000)}

\* arbitrary short buffers over the bytes of the four prefixes and a digit
MaxBufferLen == 4
BufferBytes == {"p", "u", "t", "g", "e", "d", "l", "b", "y", "1"}
Buffers == SeqsUpTo(BufferBytes, MaxBufferLen)

\* arbitrary short inputs of parseArgument over digits, signs and a letter
MaxRawLen == 5
RawBytes == {"1", "2", "+", "-", "x"}
RawArguments == SeqsUpTo(RawBytes, MaxRawLen)

\* what follows the key of a get: short texts over digits, signs and a letter
MaxTailLen == 3
TailBytes == {"0", "1", "2", "+", "-", "x"}
GetTails == SeqsUpTo(TailBytes, MaxTailLen)

\* a get with its complete key argument, "get11a"
GetWithKey == getPrefix \o formatArgument(<<"a">>)

\* buffers that grow: a prefix and then bytes that arrive in pieces
MaxGrowLen == 5
GrowBytes == {"1", "2", "-", "x"}
GrowInputs ==
    {p \o t : p \in {putPrefix, getPrefix, delPrefix, <<"p", "u", "b">>},
              t \in SeqsUpTo(GrowBytes, MaxGrowLen)}

\* the ends of the requests put11a11x, get11a0, del11a and bye
Completions ==
    {SubSeq(r, i, Len(r)) :
        r \in {putPrefix \o formatArgument(<<"a">>) \o formatArgument(<<"x">>),
               GetWithKey \o <<"0">>,
               delPrefix \o formatArgument(<<"a">>),
               byePrefix},
        i \in 1..9}

NoArgResult == ArgResult(<<>>, <<>>, FALSE, FALSE)
NoParse == [kind |-> "incomplete", cmd |-> NoCommand]

\* formatArgument(cx)
CodecFormat ==
    /\ cpc = "arg"
    /\ cfmt' = formatArgument(cx)
    /\ cpc' = "formatted"
    /\ UNCHANGED <<clientVars, handlerVars, timeVars, localVars, storeVars,
                   relayVars, configVars, sharedVars, clusterVars, crashed, cx, cargres, ccmd, cfeed,
                   cbuf, cres>>

\* parseArgument of what formatArgument returned
CodecParseArgument ==
    /\ cpc = "formatted"
    /\ cargres' = parseArgument(cfmt)
    /\ cpc' = "parsed"
    /\ UNCHANGED <<clientVars, handlerVars, timeVars, localVars, storeVars,
                   relayVars, configVars, sharedVars, clusterVars, crashed, cx, cfmt, ccmd, cfeed, cbuf,
                   cres>>

\* the next n bytes of the request arrive, and the buffer is parsed
CodecFeed ==
    /\ cpc \in {"feed", "grow"} /\ cfeed # <<>>
    /\ \E n \in 1..Len(cfeed) :
         /\ cbuf' = cbuf \o SubSeq(cfeed, 1, n)
         /\ cfeed' = SubSeq(cfeed, n + 1, Len(cfeed))
         /\ cres' = parseCommand(cbuf \o SubSeq(cfeed, 1, n))
    /\ UNCHANGED <<clientVars, handlerVars, timeVars, localVars, storeVars,
                   relayVars, configVars, sharedVars, clusterVars, crashed, cpc, cx, cfmt, cargres, ccmd>>

\* parseCommand of a whole buffer
CodecParseCommand ==
    /\ cpc \in {"cmd", "buf", "get"}
    /\ cres' = parseCommand(cbuf)
    /\ cpc' = IF cpc = "cmd" THEN "cmdparsed"
              ELSE IF cpc = "buf" THEN "bufparsed" ELSE "getparsed"
    /\ UNCHANGED <<clientVars, handlerVars, timeVars, localVars, storeVars,
                   relayVars, configVars, sharedVars, clusterVars, crashed, cx, cfmt, cargres, ccmd,
                   cfeed, cbuf>>

\* parseArgument of an arbitrary input
CodecParseRaw ==
    /\ cpc = "raw"
    /\ cargres' = parseArgument(cx)
    /\ cpc' = "rawparsed"
    /\ UNCHANGED <<clientVars, handlerVars, timeVars, localVars, storeVars,
                   relayVars, configVars, sharedVars, clusterVars, crashed, cx, cfmt, ccmd, cfeed, cbuf,
                   cres>>

-----------------------------------------------------------------------------
(* One store shared by several connections (StartServer hands the same      *)
(* store to every connection it accepts).  Of each connection only the      *)
(* local-dispatch goroutine is kept, with the commands its handler passes   *)
(* to it; the store's worker serves one operation at a time.                *)

\* connections accepted with the same store
NumConns == 2
\* commands passed to the local-dispatch goroutine of one connection
MaxCalls == 2

Conns == 1..NumConns

SharedKey == <<"a">>

\* the value that connection c puts
SharedValue(c) == IF c = 1 THEN <<"x">> ELSE <<"y">>

\* the commands of connection c: put11a11x (or y), get11a0, del11a, bye
SharedMenu(c) ==
    {commandRequest(putCommand, SharedKey, SharedValue(c), 0),
     commandRequest(getCommand, SharedKey, <<>>, 0),
     commandRequest(deleteCommand, SharedKey, <<>>, 0),
     commandRequest(closeCommand, <<>>, <<>>, 0)}

\* the operationRequest of a command
SharedOperation(req) ==
    IF req.command = closeCommand
    THEN operationRequest(closeOperation, <<>>, <<>>)
    ELSE OperationOf(req)

NoRead == [value |-> <<>>, present |-> FALSE]

\* the operationResponse of the worker to operation o on map d
StoreResponse(d, o) == IF o.op = readOperation THEN StoreRead(d, o.key) ELSE NoRead

\* request := <-localStoreChannel, and the call of kvstore.Write, Read,
\* Delete or Close, which waits at s.requestChannel <- request
ConnCommand(c) ==
    /\ connPc[c] = "recv" /\ calls[c] < MaxCalls
    /\ \E r \in SharedMenu(c) : connReq' = [connReq EXCEPT ![c] = r]
    /\ connPc' = [connPc EXCEPT ![c] = "send"]
    /\ connResp' = [connResp EXCEPT ![c] = <<>>]
    /\ calls' = [calls EXCEPT ![c] = @ + 1]
    /\ UNCHANGED <<clientVars, handlerVars, timeVars, localVars, storeVars,
                   relayVars, configVars, crashed, codecVars, clusterVars, serving, served,
                   returns>>

\* the connections whose call waits at the send while connection c is served
Waiting(c) == {d \in Conns \ {c} : connPc[d] = "send"}

\* a worker that goes on after a closeOperation
WorkerReceive_GoesOn(c) ==
    /\ storeState = "Running" /\ serving = 0
    /\ connPc[c] = "send"
    /\ IF connReq[c].command = closeCommand
       THEN /\ served' = Append(served,
                           [conn |-> c, op |-> SharedOperation(connReq[c]),
                            resp |-> NoRead, waiting |-> Waiting(c)])
            /\ connResp' = [connResp EXCEPT ![c] = closeRequest]
            /\ connPc' = [connPc EXCEPT ![c] = "exited"]
            /\ returns' = [returns EXCEPT ![c] = @ + 1]
            /\ UNCHANGED <<storeState, storeCur, serving>>
       ELSE /\ storeCur' = SharedOperation(connReq[c])
            /\ serving' = c
            /\ connPc' = [connPc EXCEPT ![c] = "await"]
            /\ UNCHANGED <<storeState, served, connResp, returns>>
    /\ UNCHANGED <<clientVars, handlerVars, timeVars, localVars, data,
                   relayVars, configVars, crashed, codecVars, clusterVars, connReq, calls>>

\* a worker that still receives after it has been closed
WorkerReceive_StillReceives(c) ==
    /\ serving = 0
    /\ connPc[c] = "send"
    /\ IF connReq[c].command = closeCommand
       THEN /\ storeState' = "Stopped"
            /\ served' = Append(served,
                           [conn |-> c, op |-> SharedOperation(connReq[c]),
                            resp |-> NoRead, waiting |-> Waiting(c)])
            /\ connResp' = [connResp EXCEPT ![c] = closeRequest]
            /\ connPc' = [connPc EXCEPT ![c] = "exited"]
            /\ returns' = [returns EXCEPT ![c] = @ + 1]
            /\ UNCHANGED <<storeCur, serving>>
       ELSE /\ storeCur' = SharedOperation(connReq[c])
            /\ serving' = c
            /\ connPc' = [connPc EXCEPT ![c] = "await"]
            /\ UNCHANGED <<storeState, served, connResp, returns>>
    /\ UNCHANGED <<clientVars, handlerVars, timeVars, localVars, data,
                   relayVars, configVars, crashed, codecVars, clusterVars, connReq, calls>>

\* a worker that receives the next request while it still holds one
WorkerReceive_WhileBusy(c) ==
    /\ storeState = "Running"
    /\ connPc[c] = "send"
    /\ IF connReq[c].command = closeCommand
       THEN /\ storeState' = "Stopped"
            /\ served' = Append(served,
                           [conn |-> c, op |-> SharedOperation(connReq[c]),
                            resp |-> NoRead, waiting |-> Waiting(c)])
            /\ connResp' = [connResp EXCEPT ![c] = closeRequest]
            /\ connPc' = [connPc EXCEPT ![c] = "exited"]
            /\ returns' = [returns EXCEPT ![c] = @ + 1]
            /\ UNCHANGED <<storeCur, serving>>
       ELSE /\ storeCur' = SharedOperation(connReq[c])
            /\ serving' = c
            /\ connPc' = [connPc EXCEPT ![c] = "await"]
            /\ UNCHANGED <<storeState, served, connResp, returns>>
    /\ UNCHANGED <<clientVars, handlerVars, timeVars, localVars, data,
                   relayVars, configVars, crashed, codecVars, clusterVars, connReq, calls>>

\* request := <-store.requestChannel, the rendezvous with the send of
\* connection c.  With a closeOperation the worker returns and Close, which
\* waits for no response, returns too: the response is closeRequest and the
\* local-dispatch goroutine exits.
WorkerReceive(c) ==
    /\ storeState = "Running" /\ serving = 0
    /\ connPc[c] = "send"
    /\ IF connReq[c].command = closeCommand
       THEN /\ storeState' = "Stopped"
            /\ served' = Append(served,
                           [conn |-> c, op |-> SharedOperation(connReq[c]),
                            resp |-> NoRead, waiting |-> Waiting(c)])
            /\ connResp' = [connResp EXCEPT ![c] = closeRequest]
            /\ connPc' = [connPc EXCEPT ![c] = "exited"]
            /\ returns' = [returns EXCEPT ![c] = @ + 1]
            /\ UNCHANGED <<storeCur, serving>>
       ELSE /\ storeCur' = SharedOperation(connReq[c])
            /\ serving' = c
            /\ connPc' = [connPc EXCEPT ![c] = "await"]
            /\ UNCHANGED <<storeState, served, connResp, returns>>
    /\ UNCHANGED <<clientVars, handlerVars, timeVars, localVars, data,
                   relayVars, configVars, crashed, codecVars, clusterVars, connReq, calls>>

\* a worker that performs a delete and sends no response for it
WorkerRespond_SilentDelete ==
    /\ serving # 0
    /\ data' = StoreApply(data, storeCur)
    /\ served' = Append(served,
                   [conn |-> serving, op |-> storeCur,
                    resp |-> StoreResponse(data, storeCur),
                    waiting |-> Waiting(serving)])
    /\ IF storeCur.op = deleteOperation
       THEN UNCHANGED <<connResp, connPc, returns>>
       ELSE /\ connResp' = [connResp EXCEPT ![serving] =
                      LocalResponse(connReq[serving], StoreRead(data, storeCur.key))]
            /\ connPc' = [connPc EXCEPT ![serving] = "recv"]
            /\ returns' = [returns EXCEPT ![serving] = @ + 1]
    /\ serving' = 0
    /\ storeCur' = NoOperation
    /\ UNCHANGED <<clientVars, handlerVars, timeVars, localVars, storeState,
                   relayVars, configVars, crashed, codecVars, clusterVars, connReq, calls>>

\* the worker performs the operation it holds and answers on the request's
\* responseChannel; the call returns and the local-dispatch goroutine makes
\* its response of the answer
WorkerRespond ==
    /\ serving # 0
    /\ data' = StoreApply(data, storeCur)
    /\ served' = Append(served,
                   [conn |-> serving, op |-> storeCur,
                    resp |-> StoreResponse(data, storeCur),
                    waiting |-> Waiting(serving)])
    /\ connResp' = [connResp EXCEPT ![serving] =
                      LocalResponse(connReq[serving], StoreRead(data, storeCur.key))]
    /\ connPc' = [connPc EXCEPT ![serving] = "recv"]
    /\ returns' = [returns EXCEPT ![serving] = @ + 1]
    /\ serving' = 0
    /\ storeCur' = NoOperation
    /\ UNCHANGED <<clientVars, handlerVars, timeVars, localVars, storeState,
                   relayVars, configVars, crashed, codecVars, clusterVars, connReq, calls>>

-----------------------------------------------------------------------------
(* The cluster of the harness: the peer links of the connection end at the  *)
(* peer ports of the other servers, where handle runs with no peers on that *)
(* server's own store ("peer commands are not replicated any further").     *)
(* That handler reads the bytes of a command from its link, hands the       *)
(* command to its local-dispatch goroutine, whose store performs it, and    *)
(* writes the 3-byte response of its performCommand: ack, or err when its   *)
(* own fan-in timed out before the local response was received.             *)

\* the k-th command written in full on link i
PeerCommand(i, k) == parseCommand(wire[i][k].text).cmd

\* the map of the store at the far end of link i after it has performed the
\* first k commands of the link, starting from kvstore.NewKVStore()
RECURSIVE PeerDataAfter(_, _)
PeerDataAfter(i, k) ==
    IF k = 0 THEN {}
    ELSE StoreApply(PeerDataAfter(i, k - 1), OperationOf(PeerCommand(i, k)))

PeerData(i) == PeerDataAfter(i, peerApplied[i])

\* the handler at the far end of link i has answered ack to the first k
\* commands: it is done with them and back at its read
PeerDoneWith(i, k) ==
    /\ Len(peerAnswers[i]) >= k
    /\ \A a \in 1..k : peerAnswers[i][a] = ackResponse

\* the store of the server at the far end of link i performs the next
\* command of the link
PeerApply(i) ==
    /\ ~crashed
    /\ peerApplied[i] < Len(wire[i])
    /\ wire[i][peerApplied[i] + 1].ok
    /\ PeerDoneWith(i, peerApplied[i])
    /\ peerApplied' = [peerApplied EXCEPT ![i] = @ + 1]
    /\ UNCHANGED <<clientVars, handlerVars, timeVars, localVars, storeVars,
                   relayVars, configVars, crashed, codecVars, sharedVars,
                   peerAnswers>>

\* the 3 bytes the handler at the far end answers to a command: err before
\* the store has performed it, ack or err after
PeerAnswersTo(i, a) ==
    IF peerApplied[i] >= a THEN {ackResponse, errorResponse}
    ELSE {errorResponse}

\* a handler that answers ack as soon as it has read a command
PeerAnswer_AckAtOnce(i) ==
    /\ ~crashed /\ link[i] = "open"
    /\ Len(peerAnswers[i]) < Len(wire[i])
    /\ wire[i][Len(peerAnswers[i]) + 1].ok
    /\ PeerDoneWith(i, Len(peerAnswers[i]))
    /\ peerAnswers' = [peerAnswers EXCEPT ![i] = Append(@, ackResponse)]
    /\ UNCHANGED <<clientVars, handlerVars, timeVars, localVars, storeVars,
                   relayVars, configVars, crashed, codecVars, sharedVars,
                   peerApplied>>

\* the handler at the far end of link i writes its response to the next
\* command of the link.  After an err its local-dispatch goroutine is left
\* at its send and the handler takes up no further command.
PeerAnswer(i) ==
    /\ ~crashed /\ link[i] = "open"
    /\ Len(peerAnswers[i]) < Len(wire[i])
    /\ wire[i][Len(peerAnswers[i]) + 1].ok
    /\ PeerDoneWith(i, Len(peerAnswers[i]))
    /\ \E r \in PeerAnswersTo(i, Len(peerAnswers[i]) + 1) :
         peerAnswers' = [peerAnswers EXCEPT ![i] = Append(@, r)]
    /\ UNCHANGED <<clientVars, handlerVars, timeVars, localVars, storeVars,
                   relayVars, configVars, crashed, codecVars, sharedVars,
                   peerApplied>>

\* reliableRead(conn, 3) returns the 3 bytes the peer has answered
ClusterPeerReply(i) ==
    /\ Len(peerAnswers[i]) = Len(wire[i])
    /\ PeerReply(i)

\* what a client of the server at the far end of link i is answered to a get
\* of key k
GetOn(i, k) ==
    LocalResponse(commandRequest(getCommand, k, <<>>, 0),
                  StoreRead(PeerData(i), k))

-----------------------------------------------------------------------------
(* Initial states                                                           *)

\* requests in the format of those of the tests and the harness, with short
\* keys and values, and malformed ones
put11a11x == <<"p", "u", "t", "1", "1", "a", "1", "1", "x">>
put11a12xy == <<"p", "u", "t", "1", "1", "a", "1", "2", "x", "y">>
put11a11z == <<"p", "u", "t", "1", "1", "a", "1", "1", "z">>
get11a0 == <<"g", "e", "t", "1", "1", "a", "0">>
get11a11 == <<"g", "e", "t", "1", "1", "a", "1", "1">>
get11a12 == <<"g", "e", "t", "1", "1", "a", "1", "2">>
del11a == <<"d", "e", "l", "1", "1", "a">>
bye == <<"b", "y", "e">>
get1xd == <<"g", "e", "t", "1", "x", "d">>
get1yABC == <<"g", "e", "t", "1", "y", "A", "B", "C">>

ReplMenu == {put11a11x, del11a, get11a0, bye}
SingleMenu == {put11a12xy, put11a11z, get11a0, get11a11, get11a12, del11a,
               bye, get1xd, get1yABC}

\* the two peer links of Test_handle_Distributed
NumPeers == 2

\* handle has started its goroutines and is about to read
InitConn(n, m, b) ==
    /\ sent = <<>> /\ stream = <<>> /\ clientOpen = TRUE /\ replies = <<>>
    /\ hpc = "read" /\ buffer = <<>> /\ request = NoRequest
    /\ response = <<>> /\ numAcks = 0 /\ fanIdx = 1 /\ readErrors = 0
    /\ connClosed = FALSE /\ performed = <<>>
    /\ elapsed = 0 /\ armed = 0
    /\ lpc = "recv" /\ lreq = NoRequest /\ lresp = <<>>
    /\ storeState = "Running" /\ storeCur = NoOperation /\ data = {}
    /\ npeers = n
    /\ rpc = [i \in 1..n |-> "recv"]
    /\ rreq = [i \in 1..n |-> NoRequest]
    /\ link = [i \in 1..n |-> "open"]
    /\ wire = [i \in 1..n |-> <<>>]
    /\ menu = m /\ budget = b
    /\ crashed = FALSE

CodecOff ==
    /\ cpc = "off" /\ cx = <<>> /\ cfmt = <<>> /\ cargres = NoArgResult
    /\ ccmd = NoCommand /\ cfeed = <<>> /\ cbuf = <<>> /\ cres = NoParse

\* the local-dispatch goroutines of the connections that share the store,
\* each waiting for its first command
SharedConns ==
    /\ connPc = [c \in Conns |-> "recv"]
    /\ connReq = [c \in Conns |-> NoRequest]
    /\ connResp = [c \in Conns |-> <<>>]
    /\ serving = 0 /\ served = <<>>
    /\ calls = [c \in Conns |-> 0]
    /\ returns = [c \in Conns |-> 0]

\* a connection on its own: no connections share its store
SharedOff ==
    /\ connPc = <<>> /\ connReq = <<>> /\ connResp = <<>>
    /\ serving = 0 /\ served = <<>>
    /\ calls = <<>> /\ returns = <<>>

\* no peer servers are modelled
ClusterOff == peerApplied = <<>> /\ peerAnswers = <<>>

\* a connection with two peer links
Init == InitConn(NumPeers, ReplMenu, MaxRequests) /\ CodecOff /\ SharedOff
    /\ ClusterOff

\* a peer listener whose connections are handled with the other servers'
\* addresses, as the client listener's are
InitSingle_WithPeers ==
    InitConn(NumPeers, SingleMenu, MaxSingleRequests) /\ CodecOff /\ SharedOff
    /\ ClusterOff

\* a connection without peers (handle(testLogger, server, store, nil)), as
\* are the connections of the peer listener, which StartServer starts with
\* nil for otherServers
InitSingle == InitConn(0, SingleMenu, MaxSingleRequests) /\ CodecOff /\ SharedOff
    /\ ClusterOff

\* a fresh store and the connections that share it
InitShared ==
    InitConn(0, {}, 0) /\ CodecOff /\ SharedConns /\ ClusterOff

InitCodec ==
    /\ InitConn(0, {}, 0) /\ SharedOff /\ ClusterOff
    /\ cfmt = <<>> /\ cargres = NoArgResult /\ cres = NoParse
    /\ \/ /\ cpc = "arg" /\ cx \in Payloads
          /\ ccmd = NoCommand /\ cfeed = <<>> /\ cbuf = <<>>
       \/ /\ cpc = "feed" /\ cx = <<>>
          /\ ccmd \in ValidCommands /\ cfeed = Encode(ccmd) /\ cbuf = <<>>
       \/ /\ cpc = "cmd" /\ cx = <<>>
          /\ ccmd \in RoundTripCommands /\ cfeed = <<>>
          /\ cbuf = EncodeCounted(ccmd)
       \/ /\ cpc = "buf" /\ cx = <<>>
          /\ ccmd = NoCommand /\ cfeed = <<>> /\ cbuf \in Buffers
       \/ /\ cpc = "raw" /\ cx \in RawArguments
          /\ ccmd = NoCommand /\ cfeed = <<>> /\ cbuf = <<>>
       \/ /\ cpc = "get" /\ cx \in GetTails
          /\ ccmd = NoCommand /\ cfeed = <<>> /\ cbuf = GetWithKey \o cx
       \/ /\ cpc = "grow" /\ cx = <<>>
          /\ ccmd = NoCommand /\ cfeed \in GrowInputs /\ cbuf = <<>>

-----------------------------------------------------------------------------
(* Specifications                                                           *)

Next ==
    \/ ClientSend \/ ClientClose
    \/ HandleRead \/ HandleReadError
    \/ FanOutLocal \/ FanOutPeer
    \/ Tick
    \/ \E i \in 1..npeers : FanInAck(i)
    \/ FanInResponse \/ FanInTimeout \/ FanInSettle \/ FanInPoll
    \/ \E i \in 1..npeers : RelayWrite(i)
    \/ \E i \in 1..npeers : PeerReply(i)
    \/ \E i \in 1..npeers : RelayReadError(i)
    \/ \E i \in 1..npeers : LinkBreak(i)
    \/ LocalCall \/ LocalClose \/ StoreProcess

\* Requests whose sizes are written with a leading zero: the text a client
\* sent differs from the text formatArgument would write for the same key
\* and value.
put201a11x == <<"p", "u", "t", "2", "0", "1", "a", "1", "1", "x">>
del201a == <<"d", "e", "l", "2", "0", "1", "a">>
VerbatimMenu == {put201a11x, del201a, get11a0, bye}

\* a connection with two peer links whose client writes sizes that way
InitVerbatim ==
    InitConn(NumPeers, VerbatimMenu, MaxLiveRequests) /\ CodecOff /\ SharedOff
    /\ ClusterOff

SpecVerbatim == InitVerbatim /\ [][Next]_vars

\* a connection with two peer links whose client also writes a malformed
\* request
ErrorsMenu == {put11a11x, get1xd, bye}

InitErrors == InitConn(NumPeers, ErrorsMenu, MaxRequests) /\ CodecOff /\ SharedOff
    /\ ClusterOff

SpecErrors == InitErrors /\ [][Next]_vars

\* a server of the harness with its two peers: a connection of client 1,
\* who puts and deletes a key and keeps the connection open
ClusterMenu == {put11a11x, del11a}

\* the requests client 1 sends after its first put
MaxClusterRequests == 1

\* The cluster after client 1's put11a11z was performed on server 1 and on
\* both peers and acknowledged everywhere: every goroutine is back at its
\* receive, the three stores hold z for key a.
InitCluster ==
    /\ sent = <<put11a11z>> /\ stream = <<>> /\ clientOpen = TRUE
    /\ replies = <<ackResponse>>
    /\ hpc = "read" /\ buffer = <<>> /\ request = NoRequest
    /\ response = <<>> /\ numAcks = 0 /\ fanIdx = 1 /\ readErrors = 0
    /\ connClosed = FALSE
    /\ performed = <<[cmd |-> WithOriginalText(parseCommand(put11a11z).cmd,
                                               put11a11z),
                      got |-> ackResponse, timedOut |-> FALSE]>>
    /\ elapsed = 0 /\ armed = 0
    /\ lpc = "recv" /\ lreq = NoRequest /\ lresp = <<>>
    /\ storeState = "Running" /\ storeCur = NoOperation
    /\ data = StoreWrite({}, SharedKey, <<"z">>)
    /\ npeers = NumPeers
    /\ rpc = [i \in 1..NumPeers |-> "recv"]
    /\ rreq = [i \in 1..NumPeers |-> NoRequest]
    /\ link = [i \in 1..NumPeers |-> "open"]
    /\ wire = [i \in 1..NumPeers |-> <<[text |-> put11a11z, ok |-> TRUE]>>]
    /\ menu = ClusterMenu /\ budget = 1 + MaxClusterRequests
    /\ crashed = FALSE
    /\ CodecOff /\ SharedOff
    /\ peerApplied = [i \in 1..NumPeers |-> 1]
    /\ peerAnswers = [i \in 1..NumPeers |-> <<ackResponse>>]

NextCluster ==
    \/ ClientSend
    \/ HandleRead
    \/ FanOutLocal \/ FanOutPeer
    \/ Tick
    \/ \E i \in 1..npeers : FanInAck(i)
    \/ FanInResponse \/ FanInTimeout \/ FanInSettle \/ FanInPoll
    \/ \E i \in 1..npeers : RelayWrite(i)
    \/ \E i \in 1..npeers : PeerApply(i)
    \/ \E i \in 1..npeers : PeerAnswer(i)
    \/ \E i \in 1..npeers : ClusterPeerReply(i)
    \/ \E i \in 1..npeers : RelayReadError(i)
    \/ \E i \in 1..npeers : LinkBreak(i)
    \/ LocalCall \/ StoreProcess

SpecCluster == InitCluster /\ [][NextCluster]_vars

Spec == Init /\ [][Next]_vars

\* The steps of the goroutines of one connection.  The Go scheduler runs a
\* goroutine that can run, and time passes: weak fairness of each.  Nothing
\* is assumed of the client, of the peers or of the network.
PerformStep ==
    \/ FanOutLocal \/ FanOutPeer
    \/ \E i \in 1..npeers : FanInAck(i)
    \/ FanInResponse \/ FanInTimeout \/ FanInSettle \/ FanInPoll

RelayStep(i) == RelayWrite(i) \/ RelayReadError(i)

LocalStep == LocalCall \/ LocalClose

\* ENABLED <<HandleRead>>_vars
HandleReadReady == ~crashed /\ hpc = "read" /\ stream # <<>>

\* ENABLED <<HandleReadError>>_vars
HandleReadErrorReady ==
    ~crashed /\ hpc = "read" /\ stream = <<>> /\ ~clientOpen

\* The two conjuncts about the reads are WF_vars(HandleRead) and
\* WF_vars(HandleReadError) with ENABLED written out.
Fairness ==
    /\ ([]<>~HandleReadReady \/ []<><<HandleRead>>_vars)
    /\ ([]<>~HandleReadErrorReady \/ []<><<HandleReadError>>_vars)
    /\ WF_vars(PerformStep)
    /\ \A i \in 1..NumPeers : WF_vars(RelayStep(i))
    /\ WF_vars(LocalStep)
    /\ WF_vars(StoreProcess)
    /\ WF_vars(Tick)

\* a connection with two peer links, of few requests
InitLive == InitConn(NumPeers, ReplMenu, MaxLiveRequests) /\ CodecOff /\ SharedOff
    /\ ClusterOff

SpecLive == InitLive /\ [][Next]_vars /\ Fairness

\* Without peers, and with every select of the fan-in polled before its
\* timer is due: no time passes that the model needs to count.
NextSingle ==
    \/ ClientSend
    \/ HandleRead
    \/ FanOutLocal
    \/ FanInResponse \/ FanInSettle
    \/ LocalCall \/ LocalClose \/ StoreProcess

SpecSingle == InitSingle /\ [][NextSingle]_vars

NextCodec ==
    \/ CodecFormat \/ CodecParseArgument \/ CodecFeed
    \/ CodecParseCommand \/ CodecParseRaw

SpecCodec == InitCodec /\ [][NextCodec]_vars

\* the store shared by NumConns connections
NextShared ==
    \/ \E c \in Conns : ConnCommand(c)
    \/ \E c \in Conns : WorkerReceive(c)
    \/ WorkerRespond

SpecShared == InitShared /\ [][NextShared]_vars

\* a connection without peers whose requests are on two keys, a and b
InitKeys ==
    /\ InitConn(0, {put11a11x, del11a, get11a0, bye,
                    <<"p", "u", "t", "1", "1", "b", "1", "1", "y">>,
                    <<"d", "e", "l", "1", "1", "b">>,
                    <<"g", "e", "t", "1", "1", "b", "1", "0">>},
                MaxSingleRequests)
    /\ CodecOff /\ SharedOff /\ ClusterOff

SpecKeys == InitKeys /\ [][NextSingle]_vars

\* The worker is a goroutine of its own: when it holds an operation it gets
\* to perform and answer it.  The calls that wait at the send on
\* requestChannel are queued by the runtime in the order of their arrival,
\* so a call that keeps waiting is received by a worker that keeps
\* receiving.  Nothing is assumed of the callers.
SharedFairness ==
    /\ WF_vars(WorkerRespond)
    /\ \A c \in Conns : SF_vars(WorkerReceive(c))

\* the store and its connections after each connection, one after the
\* other, has made a first call, a get, that found the map empty
InitSharedLive ==
    /\ InitConn(0, {}, 0) /\ CodecOff /\ ClusterOff
    /\ connPc = [c \in Conns |-> "recv"]
    /\ connReq = [c \in Conns |-> commandRequest(getCommand, SharedKey, <<>>, 0)]
    /\ connResp = [c \in Conns |-> nilResponse]
    /\ serving = 0
    /\ served = [c \in Conns |->
                   [conn |-> c,
                    op |-> operationRequest(readOperation, SharedKey, <<>>),
                    resp |-> NoRead, waiting |-> {}]]
    /\ calls = [c \in Conns |-> 1]
    /\ returns = [c \in Conns |-> 1]

SpecSharedLive == InitSharedLive /\ [][NextShared]_vars /\ SharedFairness

-----------------------------------------------------------------------------
(* An accepted connection, before handle: openConnectionsAndHandle.         *)

\* openServerConnections with a failed Dial that returns the error and
\* leaves the connections it had opened as they are
OpenServerConnection_LeavesOpen ==
    /\ ~crashed /\ hpc = "dial" /\ Len(link) < NumPeers
    /\ \E ok \in BOOLEAN :
         IF ok
         THEN link' = Append(link, "open") /\ hpc' = hpc
         ELSE link' = link /\ hpc' = "refused"
    /\ UNCHANGED <<clientVars, buffer, request, response, numAcks, fanIdx,
                   readErrors, connClosed, performed, timeVars, localVars,
                   storeVars, npeers, rpc, rreq, wire, configVars, crashed,
                   codecVars, sharedVars, clusterVars>>

\* one turn of openServerConnections' loop: net.Dial of the next peer.  A
\* connection is appended to serverConns; an error closes every connection
\* opened so far and is returned, and openConnectionsAndHandle returns
\* without calling handle
OpenServerConnection ==
    /\ ~crashed /\ hpc = "dial" /\ Len(link) < NumPeers
    /\ \E ok \in BOOLEAN :
         IF ok
         THEN link' = Append(link, "open") /\ hpc' = hpc
         ELSE link' = [i \in DOMAIN link |-> "closed"] /\ hpc' = "refused"
    /\ UNCHANGED <<clientVars, buffer, request, response, numAcks, fanIdx,
                   readErrors, connClosed, performed, timeVars, localVars,
                   storeVars, npeers, rpc, rreq, wire, configVars, crashed,
                   codecVars, sharedVars, clusterVars>>

\* every peer was dialled: handle is called with serverConns, and starts
\* the local-dispatch goroutine and one relay per connection
StartHandle ==
    /\ ~crashed /\ hpc = "dial" /\ Len(link) = NumPeers
    /\ hpc' = "read"
    /\ lpc' = "recv"
    /\ npeers' = Len(link)
    /\ rpc' = [i \in DOMAIN link |-> "recv"]
    /\ rreq' = [i \in DOMAIN link |-> NoRequest]
    /\ wire' = [i \in DOMAIN link |-> <<>>]
    /\ UNCHANGED <<clientVars, buffer, request, response, numAcks, fanIdx,
                   readErrors, connClosed, performed, timeVars, lreq, lresp,
                   storeVars, link, configVars, crashed, codecVars,
                   sharedVars, clusterVars>>

\* the client connection was accepted; no peer is dialled yet and no
\* goroutine of the connection runs
InitAccepted ==
    /\ sent = <<>> /\ stream = <<>> /\ clientOpen = TRUE /\ replies = <<>>
    /\ hpc = "dial" /\ buffer = <<>> /\ request = NoRequest
    /\ response = <<>> /\ numAcks = 0 /\ fanIdx = 1 /\ readErrors = 0
    /\ connClosed = FALSE /\ performed = <<>>
    /\ elapsed = 0 /\ armed = 0
    /\ lpc = "unstarted" /\ lreq = NoRequest /\ lresp = <<>>
    /\ storeState = "Running" /\ storeCur = NoOperation /\ data = {}
    /\ npeers = 0
    /\ rpc = <<>> /\ rreq = <<>> /\ link = <<>> /\ wire = <<>>
    /\ menu = ReplMenu /\ budget = MaxLiveRequests
    /\ crashed = FALSE
    /\ CodecOff /\ SharedOff /\ ClusterOff

SpecAccepted ==
    InitAccepted /\ [][OpenServerConnection \/ StartHandle \/ Next]_vars

-----------------------------------------------------------------------------
(* The claims                                                               *)

\* C1 (as stated): a fan-in that has begun ends: performCommand returns,
\* whatever the peers do, because a deadline of commandTimeout counted once
\* from the start of the fan-in fires.
C1_FanInEnds == (hpc = "fanin") ~> (hpc # "fanin")

\* C2 (as stated): whenever the handler is at a send of the fan-out, the
\* goroutine that is to receive is at its receive: no send of the fan-out
\* waits on another component.
C2_FanOutNeverWaits ==
    /\ hpc = "fanoutLocal" => lpc = "recv"
    /\ hpc = "fanoutPeer" => rpc[fanIdx] = "recv"

\* C4 (as stated): a read error on the client connection leads to the
\* handler having returned, with the client connection and every peer link
\* closed.
C4_ReadErrorExits ==
    (readErrors > 0) ~>
        (/\ hpc = "returned"
         /\ connClosed
         /\ \A i \in 1..npeers : link[i] = "closed")

\* C6 (as stated): parseArgument(formatArgument(x)) is x, with nothing left
\* over, complete and without error, for every x.
C6_ArgumentRoundTrip ==
    cpc = "parsed" => cargres = ArgResult(cx, <<>>, FALSE, FALSE)

\* C7 (as stated): of a valid encoded request fed in pieces, every proper
\* prefix parses Incomplete and the whole parses Complete to the command
\* that was encoded.
C7_FramingIndependence ==
    (cpc = "feed" /\ cbuf # <<>>) =>
        IF cfeed # <<>>
        THEN cres = NoParse
        ELSE cres = [kind |-> "complete", cmd |-> ccmd]


-----------------------------------------------------------------------------
(* The log of performed commands, read as a sequential history              *)

Max(S) == CHOOSE x \in S : \A y \in S : y <= x

Mutating(c) == c = putCommand \/ c = deleteCommand

\* the positions, among the first n performed commands, of the puts and
\* dels of key k
WritesOf(k, n) ==
    {j \in 1..n : Mutating(performed[j].cmd.command) /\ performed[j].cmd.key = k}

\* after the first n performed commands, the latest put on k is followed by
\* no del of k
HasValue(k, n) ==
    WritesOf(k, n) # {}
      /\ performed[Max(WritesOf(k, n))].cmd.command = putCommand

\* and the value it put
LatestValue(k, n) == performed[Max(WritesOf(k, n))].cmd.value

\* how many of the first p performed commands are puts or dels
MutIndex(p) == Cardinality({j \in 1..p : Mutating(performed[j].cmd.command)})

IsValidRequest(r) == parseCommand(r).kind = "complete"

NotClose(e) == e.got # closeRequest

\* the four fields that parseCommand sets
Fields(c) == commandRequest(c.command, c.key, c.value, c.length)

\* the handler is waiting for bytes and has consumed all that were sent
Quiet == ~crashed /\ hpc = "read" /\ stream = <<>>

-----------------------------------------------------------------------------
(* C3: replication and the client's ack                                     *)

\* C3 (as stated): when a put or del has been answered ack, the encoded
\* command the client sent has been written in full, without error, on both
\* peer links.
C3_AckedAfterBothLinks ==
    \A p \in 1..Len(performed) :
        (Mutating(performed[p].cmd.command) /\ performed[p].got = ackResponse)
        => \A i \in 1..npeers :
             /\ Len(wire[i]) >= MutIndex(p)
             /\ wire[i][MutIndex(p)] = [text |-> sent[p], ok |-> TRUE]

\* C3 (amended): when a put or del has been answered ack and the deadline did
\* not fire for it, each relay has made its write for that command, and on
\* every link where that write returned without error the bytes written are
\* exactly the encoded command the client sent.
C3_AckedAfterRelayWrites ==
    \A p \in 1..Len(performed) :
        (/\ Mutating(performed[p].cmd.command)
         /\ performed[p].got = ackResponse
         /\ ~performed[p].timedOut)
        => \A i \in 1..npeers :
             /\ Len(wire[i]) >= MutIndex(p)
             /\ wire[i][MutIndex(p)].ok => wire[i][MutIndex(p)].text = sent[p]

\* a del, sent after a put, is answered ack without a deadline, with both
\* commands on both links in full
C3_Witness ==
    /\ Len(performed) = 2
    /\ performed[1].cmd.command = putCommand
    /\ performed[2].cmd.command = deleteCommand
    /\ performed[2].got = ackResponse /\ ~performed[2].timedOut
    /\ replies = <<ackResponse, ackResponse>>
    /\ \A i \in 1..npeers :
         wire[i] = <<[text |-> put11a11x, ok |-> TRUE],
                     [text |-> del11a, ok |-> TRUE]>>

-----------------------------------------------------------------------------
(* C5: requests and their replies on one connection                         *)

\* C5 (as stated): once the handler has consumed all that the client sent,
\* every request has exactly one reply, the reply of a malformed request is
\* err and that of a valid one is not, and the commands performed are the
\* valid requests, in order.
C5_EachRequestItsReply ==
    (Quiet /\ \A i \in 1..Len(sent) : sent[i] # bye) =>
        /\ Len(replies) = Len(sent)
        /\ \A i \in 1..Len(sent) :
             (replies[i] = errorResponse) <=> ~IsValidRequest(sent[i])
        /\ [p \in 1..Len(performed) |-> Fields(performed[p].cmd)]
             = [p \in 1..Len(SelectSeq(sent, IsValidRequest)) |->
                  parseCommand(SelectSeq(sent, IsValidRequest)[p]).cmd]

-----------------------------------------------------------------------------
(* C8, C9, C10: the replies of one connection without peers                 *)

-----------------------------------------------------------------------------
(* C11: bye                                                                 *)

\* C11 (as stated): a performed bye is the last command of its connection:
\* the handler has returned, the client connection is closed, and no reply
\* was written for it (the client has one reply for each earlier command).
C11_ByeClosesSilently ==
    \A p \in 1..Len(performed) :
        performed[p].cmd.command = closeCommand =>
            /\ p = Len(performed)
            /\ hpc = "returned" /\ connClosed
            /\ Len(replies) = p - 1

\* C11 (amended): a bye is answered with the close signal or, when the timer
\* fired before the local response was in, with err; after the close signal
\* the handler has returned, the client connection is closed, no reply was
\* written for the bye, and from then on nothing is written to the client
\* and nothing is read from it.
C11_ByeClosesUnlessTimedOut ==
    /\ [](\A p \in 1..Len(performed) :
            performed[p].cmd.command = closeCommand =>
              /\ \/ performed[p].got = closeRequest
                 \/ performed[p].timedOut /\ performed[p].got = errorResponse
              /\ performed[p].got = closeRequest =>
                   /\ p = Len(performed)
                   /\ hpc = "returned" /\ connClosed
                   /\ Len(replies) = p - 1)
    /\ [][hpc = "returned" =>
            /\ hpc' = "returned" /\ connClosed'
            /\ replies' = replies /\ stream' = stream /\ buffer' = buffer]_vars

\* a put answered ack, then a bye: the handler has returned and the client
\* has the one reply
C11_Witness ==
    /\ sent = <<put11a11x, bye>>
    /\ Len(performed) = 2
    /\ performed[2].got = closeRequest
    /\ hpc = "returned" /\ connClosed
    /\ replies = <<ackResponse>>

-----------------------------------------------------------------------------
(* The return of performCommand                                             *)

\* the step in which performCommand returns
Returns == Len(performed') = Len(performed) + 1

Returned == performed'[Len(performed')]

-----------------------------------------------------------------------------
(* C12: one result and one reply for each command                           *)

\* C12: the log of results and the replies of the client change only when
\* performCommand returns.  It returns once for each command: the command
\* is the request sent at that position, its result is one non-empty
\* response or the close signal, the results before it stay as they are, and
\* the client gets exactly that response, or nothing if it is the close
\* signal.
C12_OneOutcomePerCommand ==
    [][(performed' # performed \/ replies' # replies) =>
          /\ Returns
          /\ SubSeq(performed', 1, Len(performed)) = performed
          /\ Len(performed') <= Len(sent)
          /\ Fields(Returned.cmd) = parseCommand(sent[Len(performed')]).cmd
          /\ Returned.got # <<>>
          /\ replies' = IF Returned.got = closeRequest THEN replies
                        ELSE Append(replies, Returned.got)]_vars

\* a put answered ack and a get answered with the value: two commands, two
\* results, two replies
C12_Witness ==
    /\ sent = <<put11a11x, get11a0>>
    /\ Len(performed) = 2
    /\ performed[1].got = ackResponse
    /\ performed[2].got = valPrefix \o <<"1", "1", "x">>
    /\ replies = <<performed[1].got, performed[2].got>>

-----------------------------------------------------------------------------
(* C16, C17: what performCommand returns                                    *)

\* C16: when performCommand returns because the timer fired, its result is
\* err if and only if no response of the local-dispatch actor has been
\* received, and otherwise it is that response, whatever the number of
\* acknowledgements received.
C16_TimeoutOutcome ==
    [][(Returns /\ Returned.timedOut) =>
          /\ (Returned.got = errorResponse) <=> (response = <<>>)
          /\ response # <<>> => Returned.got = response]_vars

\* a put whose local response ack was in when the timer fired, with a relay
\* still reading its peer's reply: the result is ack
C16_Witness ==
    /\ Len(performed) = 1
    /\ performed[1].timedOut
    /\ performed[1].got = ackResponse
    /\ \E i \in 1..npeers : rpc[i] = "read"
    /\ replies = <<ackResponse>>

\* C17: when performCommand returns without the timer having fired, it holds
\* the response of the local-dispatch actor and one acknowledgement of each
\* peer relay (every relay has sent its acknowledgement of this command and
\* has gone back to wait for the next, or has exited after a close), and the
\* result is that response.
C17_SettlementRule ==
    [][(Returns /\ ~Returned.timedOut) =>
          /\ response # <<>>
          /\ numAcks = npeers
          /\ \A i \in 1..npeers :
               rpc[i] \in {"recv", "exited"} /\ rreq[i] = NoRequest
          /\ lpc \in {"recv", "exited"}
          /\ Returned.got = response]_vars

\* a del settled with ack after both relays wrote it and acknowledged
C17_Witness ==
    /\ sent = <<del11a>>
    /\ Len(performed) = 1
    /\ ~performed[1].timedOut
    /\ performed[1].got = ackResponse
    /\ \A i \in 1..npeers : Len(wire[i]) = 1 /\ rpc[i] = "recv"

\* in the fan-in the response can be in before any acknowledgement
C17_ResponseFirst == hpc = "fanin" /\ response # <<>> /\ numAcks = 0

\* in the fan-in all acknowledgements can be in before the response
C17_AcksFirst == hpc = "fanin" /\ response = <<>> /\ numAcks = npeers /\ npeers > 0

-----------------------------------------------------------------------------
(* C18, C19, C20: parseCommand and parseArgument on whole inputs             *)

\* C18 (as stated): parseCommand of the encoding of a put, a get, a del or a
\* bye, with any key, value and length, is Complete with that command.
C18_CommandRoundTrip ==
    cpc = "cmdparsed" => cres = [kind |-> "complete", cmd |-> ccmd]

\* C19: a buffer of at most 2 bytes parses Incomplete, and a buffer of more
\* than 2 bytes that starts with none of put, get, del, bye parses Invalid.
C19_PrefixRecognition ==
    cpc = "bufparsed" =>
        /\ Len(cbuf) <= 2 => cres.kind = "incomplete"
        /\ (/\ Len(cbuf) > 2
            /\ SubSeq(cbuf, 1, 3) \notin {putPrefix, getPrefix, delPrefix, byePrefix})
             => cres.kind = "invalid"

\* three bytes that are no prefix, parsed Invalid
C19_Witness ==
    /\ cpc = "bufparsed"
    /\ cbuf = <<"p", "u", "b">>
    /\ cres = [kind |-> "invalid", cmd |-> NoCommand]

\* the input has a digit d1 >= 1 and then d1 bytes, the length field, of
\* which one at least is not a digit
BadLengthField(x) ==
    /\ Len(x) >= 1 /\ IsDigit(x[1])
    /\ DigitVal(x[1]) >= 1
    /\ Len(x) >= 1 + DigitVal(x[1])
    /\ \E j \in 2..(1 + DigitVal(x[1])) : ~IsDigit(x[j])

\* C20 (as stated): parseArgument of an input whose length field holds a byte
\* that is not a decimal digit returns an error: it does not panic, and it
\* returns neither an argument nor Incomplete.
C20_BadLengthIsInvalid ==
    (cpc = "rawparsed" /\ BadLengthField(cx)) =>
        /\ ~cargres.panic
        /\ cargres.err
        /\ ~cargres.incomplete

-----------------------------------------------------------------------------
(* C13, C14, C15: one store shared by several connections                   *)

\* the number of operations of connection c that the worker has received
ServedOf(c) == Cardinality({i \in 1..Len(served) : served[i].conn = c})

\* the last of them
LastServedOf(c) == Max({i \in 1..Len(served) : served[i].conn = c})

\* the last write or delete of key k among the first n operations, or 0
LastMutation(k, n) ==
    Max({0} \cup {j \in 1..n : /\ served[j].op.key = k
                               /\ served[j].op.op \in {writeOperation, deleteOperation}})

\* what a read of key k answers after the first n operations
ExpectedRead(k, n) ==
    IF LastMutation(k, n) = 0 THEN NoRead
    ELSE IF served[LastMutation(k, n)].op.op = deleteOperation THEN NoRead
    ELSE [value |-> served[LastMutation(k, n)].op.value, present |-> TRUE]

\* C13: the operations take effect one at a time in the order in which the
\* worker received them, and that order agrees with the order of calls that
\* do not overlap: every read answers the value of the last write of its key
\* received before it, or absent if there is none or a delete came after it;
\* the map holds the value of the last write; a call that has returned has
\* been received, an operation received belongs to a call begun, and the
\* connection has the response made of the worker's answer.
C13_Linearizable ==
    /\ [](/\ \A i \in 1..Len(served) :
               served[i].op.op = readOperation =>
                   served[i].resp = ExpectedRead(served[i].op.key, i - 1)
          /\ StoreRead(data, SharedKey) = ExpectedRead(SharedKey, Len(served))
          /\ \A c \in Conns :
               /\ returns[c] <= ServedOf(c) /\ ServedOf(c) <= calls[c]
               /\ (connPc[c] = "recv" /\ returns[c] > 0) =>
                    connResp[c] = LocalResponse(connReq[c],
                                                served[LastServedOf(c)].resp))
    /\ [][/\ Len(served') >= Len(served)
          /\ SubSeq(served', 1, Len(served)) = served]_vars

\* two puts of the same key that overlap: the put of connection 2 is
\* performed while that of connection 1 waits, the put of connection 1 is
\* performed after it, and a get then answers the value of connection 1
C13_Witness ==
    /\ Len(served) = 3
    /\ served[1].conn = 2 /\ served[1].op.op = writeOperation
    /\ 1 \in served[1].waiting
    /\ served[2].conn = 1 /\ served[2].op.op = writeOperation
    /\ served[3].op.op = readOperation
    /\ served[3].resp = [value |-> SharedValue(1), present |-> TRUE]
    /\ data = {<<SharedKey, SharedValue(1)>>}

\* C14: a closeOperation is the last operation the worker receives.  The
\* store is Stopped exactly when one has been received, and the Close that
\* sent it has returned.  From then on the store stays Stopped, the worker
\* holds and receives no operation, the map does not change, no call
\* returns, no connection gets a response, and a call that waits at the send
\* goes on waiting.
C14_StoppedIsTerminal ==
    /\ []( /\ (storeState = "Stopped") <=>
                (\E i \in 1..Len(served) : served[i].op.op = closeOperation)
           /\ \A i \in 1..Len(served) :
                served[i].op.op = closeOperation =>
                    /\ i = Len(served)
                    /\ connPc[served[i].conn] = "exited"
                    /\ returns[served[i].conn] = calls[served[i].conn]
           /\ storeState = "Stopped" => serving = 0 /\ storeCur = NoOperation )
    /\ [][storeState = "Stopped" =>
            /\ storeState' = "Stopped"
            /\ data' = data /\ served' = served /\ serving' = 0
            /\ returns' = returns
            /\ \A c \in Conns :
                 /\ connResp'[c] # connResp[c] => connResp'[c] = <<>>
                 /\ connPc[c] = "send" => connPc'[c] = "send"]_vars

\* connection 1 has put x and closed the store; the put of connection 2,
\* called afterwards, waits at the send, and the map still holds x
C14_Witness ==
    /\ storeState = "Stopped"
    /\ Len(served) = 2
    /\ served[2].conn = 1 /\ served[2].op.op = closeOperation
    /\ served[2].waiting = {}
    /\ connPc[1] = "exited"
    /\ connPc[2] = "send" /\ connReq[2].command = putCommand
    /\ data = {<<SharedKey, SharedValue(1)>>}

\* connection c has closed the store
ClosedBy(c) ==
    \E i \in 1..Len(served) :
        served[i].conn = c /\ served[i].op.op = closeOperation

\* C15: once the bye of one connection has closed the store, no call of the
\* store made for another connection returns, and no other connection gets
\* a response made of an answer of the store.
C15_CloseIsGlobal ==
    [][\A c \in Conns : ClosedBy(c) =>
          \A d \in Conns \ {c} :
              /\ returns'[d] = returns[d]
              /\ connResp'[d] # connResp[d] => connResp'[d] = <<>>
              /\ connPc'[d] # "await"]_vars

\* connection 2 has put y and got ack; connection 1 has then closed the
\* store; the get that connection 2 makes after that waits at the send
C15_Witness ==
    /\ ClosedBy(1)
    /\ calls[2] = 2 /\ returns[2] = 1
    /\ connPc[2] = "send" /\ connReq[2].command = getCommand
    /\ connResp[2] = <<>>
    /\ data = {<<SharedKey, SharedValue(2)>>}

-----------------------------------------------------------------------------
(* C21, C22, C23: the three outcomes of parseCommand                        *)

AllDigits(t) == \A j \in 1..Len(t) : IsDigit(t[j])

\* C21 (as stated): of a get with a complete key and the text t after it:
\* with t empty the outcome is Incomplete; with a first byte that is not a
\* digit, Invalid; with the digit 0, Complete with length 0; with a digit
\* n > 0 and fewer than n digits after it, Incomplete; with n bytes after
\* it of which one is not a digit, Invalid; with n digits, Complete with
\* their decimal value; and the length of a Complete get is never negative.
C21_GetLengthField ==
    cpc = "getparsed" =>
        /\ cres.kind = "complete" => cres.cmd.length >= 0
        /\ IF cx = <<>> THEN cres.kind = "incomplete"
           ELSE IF ~IsDigit(cx[1]) THEN cres.kind = "invalid"
           ELSE IF DigitVal(cx[1]) = 0
           THEN cres = [kind |-> "complete",
                        cmd |-> commandRequest(getCommand, <<"a">>, <<>>, 0)]
           ELSE IF Len(cx) < 1 + DigitVal(cx[1])
           THEN AllDigits(cx) => cres.kind = "incomplete"
           ELSE IF ~AllDigits(SubSeq(cx, 2, 1 + DigitVal(cx[1])))
           THEN cres.kind = "invalid"
           ELSE cres = [kind |-> "complete",
                        cmd |-> commandRequest(getCommand, <<"a">>, <<>>,
                                  DecVal(SubSeq(cx, 2, 1 + DigitVal(cx[1]))))]

\* C22: once the buffer parses Invalid, it parses Invalid after any further
\* bytes.
C22_InvalidIsPermanent ==
    [][(cpc = "grow" /\ cres.kind = "invalid") => cres'.kind = "invalid"]_vars

\* "put1x" has parsed Invalid and the further bytes "12" have arrived
C22_Witness ==
    /\ cpc = "grow"
    /\ cbuf = putPrefix \o <<"1", "x", "1", "1", "2">>
    /\ cfeed = <<>>
    /\ cres.kind = "invalid"

\* C23 (as stated): a buffer that parses Incomplete is the beginning of a
\* buffer that parses Complete.
C23_IncompleteIsViable ==
    (cpc = "bufparsed" /\ cres.kind = "incomplete") =>
        \E s \in Completions : parseCommand(cbuf \o s).kind = "complete"

-----------------------------------------------------------------------------
(* C26.  Only puts and dels reach the peers.  In every step, for every      *)
(* relay: the bytes on its peer link change only while the relay holds a    *)
(* put or a del, and what is added is a prefix of that request's text; the  *)
(* relay stands at its write or at its 3-byte read only with a put or a     *)
(* del; and a relay that receives a get or a close goes straight to its     *)
(* acknowledgement, with every peer link left as it was.                    *)
C26_OnlyMutationsReachPeers ==
    [][\A i \in 1..npeers :
         /\ wire'[i] # wire[i] =>
              /\ Mutating(rreq[i].command)
              /\ Len(wire'[i]) = Len(wire[i]) + 1
              /\ SubSeq(wire'[i], 1, Len(wire[i])) = wire[i]
              /\ HasPrefix(rreq[i].originalText, wire'[i][Len(wire'[i])].text)
         /\ rpc'[i] \in {"write", "read"} => Mutating(rreq'[i].command)
         /\ (rpc[i] = "recv" /\ rpc'[i] # "recv"
               /\ ~Mutating(rreq'[i].command)) =>
              rpc'[i] = "signal" /\ wire' = wire /\ link' = link]_vars

\* a get was performed and answered, both relays have acknowledged it and
\* are back at their receive, and no byte was written to either peer link
C26_Witness ==
    /\ sent = <<get11a0>>
    /\ Len(performed) = 1 /\ ~performed[1].timedOut
    /\ replies = <<nilResponse>>
    /\ \A i \in 1..NumPeers :
         wire[i] = <<>> /\ rpc[i] = "recv" /\ link[i] = "open"

-----------------------------------------------------------------------------
(* C27.  Verbatim forwarding.  The command handed to performCommand carries *)
(* as its original text the whole request the client sent, and parsing that *)
(* text gives the command's fields.  The k-th write of a relay on its peer  *)
(* link is the write of the k-th put or del the client sent: one write per  *)
(* command, in order, of that request's text byte for byte (all of it when  *)
(* the write returned without error, a proper prefix when the link failed). *)

\* the puts and dels among the requests the client sent, in order
MutatingSent ==
    SelectSeq(sent, LAMBDA t : parseCommand(t).kind = "complete"
                                 /\ Mutating(parseCommand(t).cmd.command))

C27_VerbatimForwarding ==
    [][/\ (request' # request /\ request' # NoRequest) =>
            /\ request'.originalText = sent[Len(performed) + 1]
            /\ parseCommand(request'.originalText).kind = "complete"
            /\ parseCommand(request'.originalText).cmd = Fields(request')
       /\ \A i \in 1..npeers :
            wire'[i] # wire[i] =>
              /\ Len(wire'[i]) = Len(wire[i]) + 1
              /\ SubSeq(wire'[i], 1, Len(wire[i])) = wire[i]
              /\ Len(wire'[i]) <= Len(MutatingSent)
              /\ rreq[i].originalText = MutatingSent[Len(wire'[i])]
              /\ LET e == wire'[i][Len(wire'[i])]
                 IN  /\ HasPrefix(rreq[i].originalText, e.text)
                     /\ e.ok <=> e.text = rreq[i].originalText]_vars

\* a put whose text is not what its key and value would be written as has
\* been acknowledged, and both peer links carry the text the client sent
C27_Witness ==
    /\ sent = <<put201a11x>>
    /\ Len(performed) = 1 /\ ~performed[1].timedOut
    /\ Encode(Fields(performed[1].cmd)) # put201a11x
    /\ \A i \in 1..NumPeers : wire[i] = <<[text |-> put201a11x, ok |-> TRUE]>>

-----------------------------------------------------------------------------
(* C28.  The relay's acknowledgement.  A relay holds a command from its     *)
(* receive on peerChannel to the end of its send on ackChannel.             *)

\* relay i holds a command whose acknowledgement the coordinator has not
\* received
Holding(i) == rreq[i] # NoRequest

\* relay i's send on ackChannel is received in this step
Signals(i) == rpc[i] = "signal" /\ rpc'[i] # "signal"

\* In every step, for every relay: it comes to its send on ackChannel from
\* its 3-byte read when it holds a put or a del, and straight from its
\* receive otherwise; it comes to the read only from its write, which put
\* one entry on the peer link; a send received by the coordinator counts as
\* one acknowledgement and ends the command at the relay; the coordinator's
\* count grows by one, for one relay, at a time; and a relay receives a
\* command only when it holds none.
C28_SignalRule ==
    \A i \in 1..npeers :
      /\ (rpc'[i] = "signal" /\ rpc[i] # "signal") =>
           IF Mutating(rreq'[i].command)
           THEN rpc[i] = "read" /\ rreq'[i] = rreq[i] /\ wire[i] # <<>>
           ELSE rpc[i] = "recv" /\ rreq'[i] = request
      /\ (rpc'[i] = "read" /\ rpc[i] # "read") =>
           rpc[i] = "write" /\ Len(wire'[i]) = Len(wire[i]) + 1
      /\ Signals(i) =>
           /\ numAcks' = numAcks + 1
           /\ rreq'[i] = NoRequest
           /\ rpc'[i] = IF rreq[i].command = closeCommand
                        THEN "exited" ELSE "recv"
      /\ numAcks' > numAcks =>
           Cardinality({j \in 1..npeers : Signals(j)}) = 1
      /\ rreq'[i] # rreq[i] =>
           \/ ~Holding(i) /\ rpc[i] = "recv" /\ rreq'[i] = request
           \/ Signals(i)

\* C28 as amended: at most one acknowledgement per command received, and for
\* a put or a del never before the write and the read have returned
C28_AtMostOnceAfterIo == [][C28_SignalRule]_vars

\* C28 as stated: that, and every command a relay receives is acknowledged
C28_ExactlyOnceAfterIo ==
    /\ [][C28_SignalRule]_vars
    /\ \A i \in 1..NumPeers : Holding(i) ~> ~Holding(i)

\* a put was answered with both acknowledgements in, each relay having
\* written and read on its link, and both relays wait for the next command
C28_Witness ==
    /\ sent = <<put11a11x>>
    /\ Len(performed) = 1 /\ ~performed[1].timedOut
    /\ performed[1].got = ackResponse
    /\ \A i \in 1..NumPeers :
         /\ rpc[i] = "recv" /\ ~Holding(i)
         /\ wire[i] = <<[text |-> put11a11x, ok |-> TRUE]>>

-----------------------------------------------------------------------------
(* C25.  Per-connection ordering.                                           *)

\* the text of the k-th request the client sent, <<>> when there is none
SentText(k) == IF k \in 1..Len(sent) THEN sent[k] ELSE <<>>

\* r is the command in flight or the one performed last
CurrentOrLast(r) ==
    \/ r.originalText = SentText(Len(performed) + 1)
    \/ r.originalText = SentText(Len(performed))

\* The handler takes up a command only when it has none in flight, and it
\* is the next request in the order sent; the commands performed are the
\* requests sent, in order; the local-dispatch goroutine and each relay
\* receive a command only when they hold none, having handed over the
\* response or the acknowledgement of the one before; and what they receive
\* is the command in flight.
C25_OrderRule ==
    /\ (request' # request /\ request' # NoRequest) =>
         /\ request = NoRequest /\ hpc = "read"
         /\ request'.originalText = SentText(Len(performed) + 1)
    /\ performed' # performed =>
         /\ performed' = Append(performed, performed'[Len(performed')])
         /\ performed'[Len(performed')].cmd = request
         /\ request.originalText = SentText(Len(performed'))
    /\ (lreq' # lreq /\ lreq' # NoRequest) =>
         /\ lreq = NoRequest /\ lpc = "recv"
         /\ hpc = "fanoutLocal" /\ lreq' = request
    /\ (lpc' = "recv" /\ lpc # "recv") =>
         lpc = "respond" /\ hpc = "fanin" /\ response' = lresp
    /\ \A i \in 1..npeers :
         /\ (rreq'[i] # rreq[i] /\ rreq'[i] # NoRequest) =>
              /\ rreq[i] = NoRequest /\ rpc[i] = "recv"
              /\ hpc = "fanoutPeer" /\ rreq'[i] = request
         /\ (rpc'[i] = "recv" /\ rpc[i] # "recv") =>
              rpc[i] = "signal" /\ hpc = "fanin"

\* at every moment the goroutines hold nothing but the command in flight or
\* the one performed last
C25_NothingOlder ==
    /\ request # NoRequest => request.originalText = SentText(Len(performed) + 1)
    /\ lreq # NoRequest => CurrentOrLast(lreq)
    /\ \A i \in 1..npeers : rreq[i] # NoRequest => CurrentOrLast(rreq[i])

C25_PerConnectionOrder == []C25_NothingOlder /\ [][C25_OrderRule]_vars

\* the first command timed out at the coordinator, and the second is held by
\* the local-dispatch goroutine and by both relays
C25_Witness ==
    /\ sent = <<get11a0, put11a11x>>
    /\ hpc = "fanin"
    /\ Len(performed) = 1 /\ performed[1].timedOut
    /\ request # NoRequest /\ request.originalText = sent[2]
    /\ lreq = request
    /\ \A i \in 1..NumPeers : rreq[i] = request

-----------------------------------------------------------------------------
(* C30.  An Invalid parse is recovered locally.                             *)

\* handle's pass over one more byte finds the buffer malformed
InvalidPass ==
    /\ hpc = "read" /\ stream # <<>> /\ stream' = Tail(stream)
    /\ parseCommand(Append(buffer, Head(stream))).kind = "invalid"

\* Such a pass writes err and nothing else to the client (nothing when the
\* client has gone), empties the buffer and leaves the handler reading on
\* an open connection; no command is in flight, the local-dispatch
\* goroutine, the relays, the store, the peer links and the commands
\* performed are as they were.
C30_InvalidRecoveredLocally ==
    [][InvalidPass =>
         /\ replies' = IF clientOpen THEN Append(replies, errorResponse)
                       ELSE replies
         /\ buffer' = <<>>
         /\ hpc' = "read" /\ ~crashed' /\ connClosed' = connClosed
         /\ request' = request /\ request = NoRequest
         /\ performed' = performed
         /\ UNCHANGED <<localVars, storeVars, relayVars>>]_vars

\* after a put replicated to both peers, the malformed get1xd was answered
\* err: the handler reads on, the store holds the value and each peer link
\* carries the put and nothing else
C30_Witness ==
    /\ sent = <<put11a11x, get1xd>>
    /\ replies = <<ackResponse, errorResponse>>
    /\ hpc = "read" /\ buffer = <<>> /\ stream = <<>> /\ ~connClosed
    /\ Len(performed) = 1
    /\ data = {<<SharedKey, <<"x">>>>}
    /\ \A i \in 1..NumPeers :
         /\ wire[i] = <<[text |-> put11a11x, ok |-> TRUE]>>
         /\ link[i] = "open" /\ rpc[i] = "recv"

-----------------------------------------------------------------------------
(* C29.  The single worker of the store.                                    *)

\* the connections whose request the worker has received and not answered
InProcess == {c \in Conns : connPc[c] = "await"}

\* At every moment at most one request is in process, it is the one the
\* worker holds, and the worker holds none when none is in process.
C29_OneInProcess ==
    /\ Cardinality(InProcess) <= 1
    /\ InProcess = IF serving = 0 THEN {} ELSE {serving}
    /\ IF serving = 0
       THEN storeCur = NoOperation
       ELSE storeCur = SharedOperation(connReq[serving])

\* In every step: the worker receives a request only when it holds none;
\* the request it answers is the one it received last, so requests are
\* processed in the order received; the map changes only in the worker's
\* step on the request it holds, as that operation prescribes; a call
\* returns its answer only by the worker's step; and the step of a caller
\* (the send of its request) leaves the map as it was.
C29_WorkerRule ==
    /\ (serving' # serving /\ serving' # 0) =>
         serving = 0 /\ connPc[serving'] = "send" /\ served' = served
    /\ (served' # served /\ serving # 0) =>
         /\ served' = Append(served, served'[Len(served')])
         /\ served'[Len(served')].conn = serving
         /\ served'[Len(served')].op = SharedOperation(connReq[serving])
         /\ serving' = 0
    /\ data' # data =>
         /\ serving # 0 /\ serving' = 0
         /\ data' = StoreApply(data, SharedOperation(connReq[serving]))
         /\ Len(served') = Len(served) + 1
    /\ \A c \in Conns :
         /\ returns'[c] # returns[c] =>
              /\ Len(served') = Len(served) + 1
              /\ served'[Len(served')].conn = c
         /\ calls'[c] # calls[c] => data' = data /\ served' = served

C29_SingleWorker == []C29_OneInProcess /\ [][C29_WorkerRule]_vars

\* the worker holds the get of connection 1 while the call of connection 2
\* waits at its send, after a put of connection 2
C29_Witness ==
    /\ serving = 1 /\ connPc[1] = "await" /\ connPc[2] = "send"
    /\ storeCur.op = readOperation
    /\ data = {<<SharedKey, SharedValue(2)>>}
    /\ Len(served) = 1 /\ served[1].conn = 2

-----------------------------------------------------------------------------
(* C24.  Replication seen from the other servers of the cluster.            *)

\* the command performed last
LastPerformed == performed[Len(performed)]

\* the last command performed is a put or a del, it was answered ack and
\* the client has the ack; the handler is back at its read
AckedMutation ==
    /\ performed # <<>>
    /\ Mutating(LastPerformed.cmd.command)
    /\ LastPerformed.got = ackResponse
    /\ hpc = "read" /\ request = NoRequest
    /\ Len(replies) = Len(performed)
    /\ replies[Len(replies)] = ackResponse

\* what a get of the key answers on a server that has performed that
\* command: the value put, or nil after a del
VisibleAnswer ==
    LocalResponse(commandRequest(getCommand, LastPerformed.cmd.key, <<>>, 0),
                  StoreRead(StoreApply({}, OperationOf(LastPerformed.cmd)),
                            LastPerformed.cmd.key))

\* every other server answers a get of the key accordingly
VisibleOnPeers ==
    \A i \in 1..NumPeers : GetOn(i, LastPerformed.cmd.key) = VisibleAnswer

\* C24 as stated: once a put or a del is acknowledged to its client, a get
\* of the key on every other server returns the value put, or nil
C24_ReplicationVisible == AckedMutation => VisibleOnPeers

\* the acknowledgement came without the fan-in's timer firing, no peer link
\* has failed and no peer has answered err
CleanlyReplicated ==
    /\ ~LastPerformed.timedOut
    /\ \A i \in 1..NumPeers :
         /\ link[i] = "open"
         /\ \A a \in 1..Len(peerAnswers[i]) : peerAnswers[i][a] = ackResponse

\* C24 as amended: that holds when the acknowledgement was not by timeout,
\* every peer link is sound and every peer answered ack
C24_VisibleWhenCleanlyReplicated ==
    (AckedMutation /\ CleanlyReplicated) => VisibleOnPeers

\* the del that followed the put of z was acknowledged in that way: server
\* 1 and both other servers answer nil
C24_Witness ==
    /\ sent = <<put11a11z, del11a>>
    /\ AckedMutation /\ CleanlyReplicated
    /\ data = {}
    /\ \A i \in 1..NumPeers :
         /\ peerApplied[i] = 2
         /\ GetOn(i, SharedKey) = nilResponse

-----------------------------------------------------------------------------
(* C31.  While the buffer parses Incomplete.                                *)

\* handle's pass over one more byte leaves the buffer Incomplete
IncompletePass ==
    /\ hpc = "read" /\ stream # <<>> /\ stream' = Tail(stream)
    /\ parseCommand(Append(buffer, Head(stream))).kind = "incomplete"

\* the inputs that parseCommand(buf) passes to parseArgument: what follows
\* the three bytes of a put, get or del and, once the key is there, what
\* follows the key
ArgumentInputs(buf) ==
    IF Len(buf) < 3 \/ SubSeq(buf, 1, 3) \notin {putPrefix, getPrefix, delPrefix}
    THEN {}
    ELSE LET x == SubSeq(buf, 4, Len(buf))
             a == parseArgument(x)
         IN  {x} \cup IF ~a.incomplete /\ ~a.err /\ ~a.panic
                         /\ SubSeq(buf, 1, 3) = putPrefix
                      THEN {a.rest} ELSE {}

\* parseArgument on an incomplete input: no payload, the input as remainder
IncompleteKeepsInput(x) ==
    parseArgument(x).incomplete =>
        /\ parseArgument(x).arg = <<>>
        /\ parseArgument(x).rest = x
        /\ ~parseArgument(x).err

\* C31: a pass that leaves the buffer Incomplete writes nothing to the
\* client and appends the byte read to the buffer, dropping none; the
\* handler stays at its read with no command taken up; and for every input
\* that the parse of the handler's buffer passes to parseArgument, an
\* incomplete result carries no payload and the whole input as remainder.
C31_IncompleteKeepsEverything ==
    /\ [](\A x \in ArgumentInputs(buffer) : IncompleteKeepsInput(x))
    /\ [][IncompletePass =>
            /\ replies' = replies
            /\ buffer' = Append(buffer, Head(stream))
            /\ hpc' = "read" /\ request' = request /\ ~crashed'
            /\ performed' = performed
            /\ UNCHANGED <<localVars, storeVars>>]_vars

\* the handler has read put11a12x of put11a12xy: the value is incomplete,
\* nothing was written to the client and the buffer holds every byte read
C31_Witness ==
    /\ sent = <<put11a12xy>>
    /\ buffer = <<"p", "u", "t", "1", "1", "a", "1", "2", "x">>
    /\ stream = <<"y">>
    /\ replies = <<>> /\ hpc = "read"
    /\ parseArgument(<<"1", "2", "x">>).incomplete
    /\ <<"1", "2", "x">> \in ArgumentInputs(buffer)

-----------------------------------------------------------------------------
(* C32.  The goroutines of a connection after a bye.                        *)

\* C32 (as stated): once the handler has returned, which it does only after
\* a bye, the local-dispatch goroutine has exited, having handed over the
\* close marker, and every relay has exited, having handed over its
\* acknowledgement: no goroutine of the connection is left at a channel.
C32_AllExitOnClose ==
    hpc = "returned" =>
        /\ lpc = "exited"
        /\ \A i \in 1..npeers : rpc[i] = "exited"

-----------------------------------------------------------------------------
(* C33.  The peer links of a connection.                                    *)

\* handle was called for the connection
Handled == hpc \notin {"dial", "refused"}

\* C33: the peer links of a connection are opened all or none.  A
\* connection whose dialling failed has every link it had opened closed and
\* is never handled: no goroutine is started for it, nothing is read from
\* it or written to it, and it stays so.  handle is called only with a link
\* to every peer, all of them open.  And once the handler has returned, the
\* client connection and every peer link are closed.
C33_PeerLinkLifecycle ==
    /\ [](hpc = "refused" =>
            /\ \A i \in DOMAIN link : link[i] = "closed"
            /\ lpc = "unstarted" /\ npeers = 0
            /\ performed = <<>> /\ replies = <<>>)
    /\ [](Handled => DOMAIN link = 1..NumPeers /\ npeers = NumPeers)
    /\ [](hpc = "returned" =>
            connClosed /\ \A i \in DOMAIN link : link[i] = "closed")
    /\ [][/\ hpc = "refused" => hpc' = "refused"
          /\ (hpc = "dial" /\ Handled') =>
                \A i \in 1..NumPeers : link'[i] = "open"]_vars

\* the second Dial failed: the link opened by the first is closed
C33_Witness ==
    /\ hpc = "refused" /\ link = <<"closed">>
    /\ sent # <<>> /\ stream = Head(sent) /\ replies = <<>>

-----------------------------------------------------------------------------
(* C34.  The connections of the peer listener.                              *)

\* the map after the first k commands performed on the connection
RECURSIVE AppliedThrough(_)
AppliedThrough(k) ==
    IF k = 0 THEN {}
    ELSE IF performed[k].cmd.command = closeCommand THEN AppliedThrough(k - 1)
    ELSE StoreApply(AppliedThrough(k - 1), OperationOf(performed[k].cmd))

-----------------------------------------------------------------------------
(* C35.  The acknowledgements counted by a fan-in.                          *)

\* the relays that have handed over their acknowledgement of the command in
\* hand: each is back at its receive, or has returned after a close
Acknowledged == {i \in 1..npeers : rpc[i] \in {"recv", "exited"}}

\* C35: the acknowledgements counted are never more than the relays.  During
\* a fan-in the count is the number of relays that have handed over their
\* acknowledgement of the command in hand, and every relay that has not yet
\* done so holds that very command: no acknowledgement of an earlier
\* command, timed out or not, is there to be counted.
C35_AckAccounting ==
    /\ numAcks <= npeers
    /\ hpc = "fanin" =>
         /\ numAcks = Cardinality(Acknowledged)
         /\ \A i \in 1..npeers : i \notin Acknowledged => rreq[i] = request
         /\ \A i \in Acknowledged : rreq[i] = NoRequest

\* the fan-in of a second command, after a first one that ended by the
\* timer: both acknowledgements counted are the second command's
C35_Witness ==
    /\ Len(performed) = 1 /\ performed[1].timedOut
    /\ hpc = "fanin" /\ request # NoRequest
    /\ IsReplicated(request.command)
    /\ numAcks = npeers
    /\ \A i \in 1..npeers : Len(wire[i]) = 2

-----------------------------------------------------------------------------
(* C36.  Whose response a reply is.                                         *)

\* the local-dispatch goroutine's response to cmd, the (p+1)-th command of
\* the connection
ResponseTo(cmd, p) ==
    IF cmd.command = closeCommand THEN closeRequest
    ELSE LocalResponse(cmd, StoreRead(AppliedThrough(p), cmd.key))

NotErr(r) == r # errorResponse

\* a result that handle writes to the client as it is: not err, and not the
\* close marker, on which handle returns
Written(r) == r # errorResponse /\ r # closeRequest

\* C36: what a command returned, when it is not err, is the local-dispatch
\* goroutine's response to that command, and the replies the client has
\* that are not err are these results, in order.  During a fan-in, the response the goroutine
\* offers and the response the handler holds are responses to the command
\* in hand: the response to an earlier command is never there to be taken.
C36_ResponseAttribution ==
    /\ \A p \in 1..Len(performed) :
         performed[p].got # errorResponse =>
              performed[p].got = ResponseTo(performed[p].cmd, p - 1)
    /\ SelectSeq(replies, NotErr)
         = SelectSeq([p \in 1..Len(performed) |-> performed[p].got], Written)
    /\ hpc = "fanin" =>
         /\ lpc # "recv" /\ lpc # "exited" => lreq = request
         /\ lpc = "respond" => lresp = ResponseTo(request, Len(performed))
         /\ response # <<>> => response = ResponseTo(request, Len(performed))

\* a put timed out before its response was ready and was answered err; its
\* response, ready since, is offered to nobody while the handler waits to
\* hand over the next command
C36_Witness ==
    /\ Len(performed) = 1 /\ performed[1].timedOut
    /\ performed[1].cmd.command = putCommand
    /\ replies = <<errorResponse>>
    /\ lpc = "respond" /\ lresp = ackResponse
    /\ hpc = "fanoutLocal" /\ request # NoRequest

-----------------------------------------------------------------------------
(* C37.  The handler's buffer.                                              *)

\* the verdict of the pass that reads the next byte
NextVerdict == parseCommand(Append(buffer, Head(stream))).kind

ReadPass == hpc = "read" /\ stream # <<>> /\ stream' = Tail(stream)

\* C37: whenever the handler is about to read, its buffer parses
\* Incomplete, and while a command is performed the buffer is that command's
\* text.  A pass adds the byte it read to the buffer and nothing else; the
\* pass whose verdict is Invalid leaves the buffer empty, and so does the
\* return to reading after a Complete verdict: the bytes parsed after a
\* verdict are bytes read after it.
C37_BufferInvariant ==
    /\ [](hpc = "read" => parseCommand(buffer).kind = "incomplete")
    /\ [](hpc \in {"fanoutLocal", "fanoutPeer", "fanin"} =>
            /\ parseCommand(buffer).kind = "complete"
            /\ request = WithOriginalText(parseCommand(buffer).cmd, buffer))
    /\ [][/\ (ReadPass /\ NextVerdict = "invalid") => buffer' = <<>>
          /\ (ReadPass /\ NextVerdict \in {"incomplete", "complete"}) =>
                buffer' = Append(buffer, Head(stream))
          /\ (hpc # "read" /\ hpc' = "read") => buffer' = <<>>
          /\ ~ReadPass => buffer' \in {buffer, <<>>}]_vars

\* after a put (Complete) and a malformed request (Invalid), the handler
\* reads the third request: its buffer holds bytes of that request only
C37_Witness ==
    /\ Len(sent) = 3 /\ sent[1] = put11a11z /\ sent[2] = get1xd
    /\ sent[3] = put11a12xy
    /\ Len(performed) = 1 /\ errorResponse \in {replies[i] : i \in 1..Len(replies)}
    /\ hpc = "read" /\ buffer = <<"p", "u", "t", "1", "1">>
    /\ stream = <<"a", "1", "2", "x", "y">>

-----------------------------------------------------------------------------
(* C38.  What the store's operations change.                                *)

\* the keys of the requests
StoreKeys == {<<"a">>, <<"b">>}

\* the worker performs the operation it holds
WorkerPerforms == storeCur # NoOperation /\ storeCur' = NoOperation

\* the entry of key k is in d2 what it is in d1
SameEntry(d1, d2, k) ==
    /\ Present(d2, k) = Present(d1, k)
    /\ Present(d1, k) => ValueOf(d2, k) = ValueOf(d1, k)

\* C38: the map has at most one value per key.  A write of (k, v) leaves k
\* present with value v, a delete of k leaves k absent, and both leave the
\* entry of every other key as it was; a read leaves the map as it was; and
\* nothing but the worker's performing an operation changes the map.
C38_StoreFrame ==
    /\ [](\A p, q \in data : p[1] = q[1] => p = q)
    /\ [][/\ WorkerPerforms =>
               /\ \A k \in StoreKeys \ {storeCur.key} : SameEntry(data, data', k)
               /\ {p[1] : p \in data'} \subseteq {p[1] : p \in data} \cup {storeCur.key}
               /\ storeCur.op = writeOperation =>
                    /\ Present(data', storeCur.key)
                    /\ ValueOf(data', storeCur.key) = storeCur.value
               /\ storeCur.op = deleteOperation => ~Present(data', storeCur.key)
               /\ storeCur.op = readOperation => data' = data
          /\ ~WorkerPerforms => data' = data]_vars

\* a and b were written and a was deleted: b has kept its value
C38_Witness ==
    /\ Len(performed) = 3
    /\ performed[1].cmd.command = putCommand /\ performed[1].cmd.key = <<"a">>
    /\ performed[2].cmd.command = putCommand /\ performed[2].cmd.key = <<"b">>
    /\ performed[3].cmd.command = deleteCommand /\ performed[3].cmd.key = <<"a">>
    /\ data = {<<(<<"b">>), (<<"y">>)>>}

-----------------------------------------------------------------------------
(* C39.  Concurrent calls of one store.                                     *)

\* the call of connection c is a Read, a Write or a Delete that has not
\* returned
CallPending(c) ==
    connPc[c] \in {"send", "await"} /\ connReq[c].command # closeCommand

\* the call of connection c returns in this step
CallReturns(c) == returns'[c] # returns[c]

\* Every call has at most one response: a connection has returned from all
\* its calls but the one it is in, and while its call is pending it has no
\* response.
C39_OneResponsePerCall ==
    \A c \in Conns :
        /\ returns[c] = IF connPc[c] \in {"send", "await"}
                        THEN calls[c] - 1 ELSE calls[c]
        /\ connPc[c] \in {"send", "await"} => connResp[c] = <<>>

\* The step in which a Read, Write or Delete returns is the worker's answer
\* to that call's own request, computed on the map as the worker found it;
\* the call returns once, and no other connection returns or gets a
\* response in that step.
C39_OwnResponse ==
    \A c \in Conns :
        (CallReturns(c) /\ connReq[c].command # closeCommand) =>
            /\ returns'[c] = returns[c] + 1
            /\ connPc[c] = "await" /\ connPc'[c] = "recv"
            /\ storeCur = OperationOf(connReq[c])
            /\ served'[Len(served')] =
                 [conn |-> c, op |-> OperationOf(connReq[c]),
                  resp |-> StoreResponse(data, OperationOf(connReq[c])),
                  waiting |-> Waiting(c)]
            /\ connResp'[c] = LocalResponse(connReq[c],
                                            StoreRead(data, connReq[c].key))
            /\ \A d \in Conns \ {c} :
                 /\ returns'[d] = returns[d]
                 /\ connResp'[d] = connResp[d]
                 /\ connPc'[d] = connPc[d]

\* C39: with several connections calling one store, every Read, Write and
\* Delete gets exactly one response, the response to its own request, and
\* every such call returns in the end, as long as the store is Running.
C39_ConcurrentCalls ==
    /\ []C39_OneResponsePerCall
    /\ [][C39_OwnResponse]_vars
    /\ \A c \in Conns :
         CallPending(c) ~> (~CallPending(c) \/ storeState = "Stopped")

\* the put of connection 2 was performed while the get of connection 1
\* waited at the send; the get has then returned the value that connection
\* 2 put, and the put has returned ack
C39_Witness ==
    /\ storeState = "Running"
    /\ Len(served) = NumConns + 2
    /\ served[NumConns + 1].conn = 2
    /\ served[NumConns + 1].op.op = writeOperation
    /\ 1 \in served[NumConns + 1].waiting
    /\ served[NumConns + 2].conn = 1
    /\ served[NumConns + 2].op.op = readOperation
    /\ connPc[1] = "recv" /\ returns[1] = calls[1]
    /\ connResp[1] = valPrefix \o formatArgument(SharedValue(2))
    /\ connPc[2] = "recv" /\ connResp[2] = ackResponse

=============================================================================
